---- MODULE Spec2Model ----
(***************************************************************************)
(* The in-memory vector index of agent_backend/embeddings.py: the module   *)
(* globals _index, _id_map and _text_cache, the coroutine build_index      *)
(* that reconciles them with a list of reports, and the coroutine          *)
(* search_similar that queries them.  Coroutines run on one event loop:    *)
(* the code between two awaits is one atomic step, and the only await of   *)
(* either coroutine is the call of the embedding collaborator.             *)
(*                                                                         *)
(* Scores are in tenths (0.5 is 5).  A vector is named by the canonical    *)
(* text it embeds; "junk" is a vector that embeds none of the texts        *)
(* submitted.  Sequences are 1-based: position i is FAISS position i - 1.  *)
(***************************************************************************)
EXTENDS Integers, Sequences, FiniteSets, TLC

\* ---- bounds of the model
NumQueries == 1
MaxTopK == 2
MaxIndex == 3

\* ---- threshold: float = 0.5 of search_similar, in tenths
DefaultThreshold == 5

\* two reports and two canonical texts: a text can change, and a second report
\* can stay as it is
Ids == {"r1", "r2"}
Texts == {"a", "b"}
NoText == "none"
JunkVector == "junk"
Vectors == Texts \cup {JunkVector}
Queries == 1..NumQueries
\* the tasks that run build_index: one, and a second one for concurrent calls
Builders == {"b1", "b2"}
TopKs == (0 - 1)..MaxTopK
ThresholdOverrides == {2, 6}
\* the threshold argument: <<>> when the caller supplies none
ThresholdArgs == {<<>>} \cup {<<t>> : t \in ThresholdOverrides}

\* a report, reduced to its _id and the text build_report_text derives from it
Reports == [id : Ids, text : Texts]
\* what get_all_reports can return: the _id of a document is unique
ReportLists ==
    UNION {{s \in [1..n -> Reports] :
              \A i, j \in 1..n : i # j => s[i].id # s[j].id} : n \in 0..Cardinality(Ids)}

VARIABLES
    apiKey,      \* whether GEMINI_API_KEY is set
    index,       \* _index: [built |-> it is not None, vecs |-> its vectors]
    id_map,      \* _id_map
    text_cache,  \* _text_cache: NoText where the id has no entry
    build,       \* per build_index task: its position and locals
    bret,        \* what the step just taken made build_index return or raise
    search,      \* the search_similar task: its position and locals
    sret,        \* what the step just taken made search_similar return or raise
    tool,        \* the vector_search task: its position and arguments
    tret,        \* what the step just taken made vector_search return or raise
    store,       \* the reports collection: whether it answers, and its documents
    fret,        \* what the filter tool just called returned or raised
    run,         \* the run of a search pipeline: its stage and its state
    graph,       \* the run of the agent graph of agent.py: its node and its state
    rtext,       \* a call of build_report_text: the report, and what it gave
    nvec,        \* the numbers of the vectors normalize_vectors gave the index
    app          \* the application of main.py: its position and how startup ended

vars == <<apiKey, index, id_map, text_cache, build, bret, search, sret, tool, tret,
          store, fret, run, graph, rtext, nvec, app>>
\* the variables of the callers of build_index and search_similar
callers == <<tool, tret, store, fret, run, graph, rtext, nvec, app>>
shared == <<index, id_map, text_cache>>
callersOfText == <<tool, tret, store, fret, run, graph, nvec, app>>
callersOfVectors == <<tool, tret, store, fret, run, graph, rtext, app>>
contents == <<index.vecs, id_map, text_cache>>

\* ---- helpers
Min(a, b) == IF a < b THEN a ELSE b
Range(s) == {s[i] : i \in 1..Len(s)}
IdsOf(reports) == [i \in 1..Len(reports) |-> reports[i].id]
NoDuplicates(s) == \A i, j \in 1..Len(s) : i # j => s[i] # s[j]

EmptyIndex == [built |-> TRUE, vecs |-> <<>>]
EmptyCache == [i \in Ids |-> NoText]
\* wrote: the call has changed the index contents, the id list or the cache
IdleBuild == [pc |-> "idle", reports |-> <<>>, force |-> FALSE, batch |-> <<>>,
              wrote |-> FALSE]
\* bret: calls is the number of embedding-collaborator calls the ended call
\* made, at the call that raised
NoResult == [status |-> "none", at |-> "", count |-> 0, calls |-> 0]
Returned(n, c) == [status |-> "ok", at |-> "", count |-> n, calls |-> c]
Raised(at, c) == [status |-> "raised", at |-> at, count |-> 0, calls |-> c]
IdleSearch == [pc |-> "idle", query |-> 1, top_k |-> 0, targ |-> <<>>]
\* sret: the arguments of the ended call, the k it asked the index for, the
\* index's answer (hits) and the list returned (results)
NoSearchResult ==
    [status |-> "none", at |-> "", query |-> 1, top_k |-> 0, targ |-> <<>>,
     calls |-> 0, k |-> 0, hits |-> <<>>, results |-> <<>>]

\* ---- build_index
\* a dirty check that never consults the fingerprint cache
DirtyIgnoresCache(r, force, cache) == TRUE

\* line 81: the report has to be (re)embedded
Dirty(r, force, cache) ==
    force \/ cache[r.id] = NoText \/ cache[r.id] # r.text

\* lines 76-82
ReportsToEmbed(reports, force, cache) ==
    SelectSeq(reports, LAMBDA r : Dirty(r, force, cache))

\* a cache update that keeps only the fingerprints of the batch
CacheAfterOnlyBatch(cache, batch) ==
    [i \in Ids |->
        IF \E k \in 1..Len(batch) : batch[k].id = i
        THEN batch[CHOOSE k \in 1..Len(batch) : batch[k].id = i].text
        ELSE NoText]

\* lines 109-111: the cache after the loop over the batch
RECURSIVE CacheAfter(_, _)
CacheAfter(cache, batch) ==
    IF batch = <<>> THEN cache
    ELSE CacheAfter([cache EXCEPT ![Head(batch).id] = Head(batch).text], Tail(batch))

\* lines 65-103: from the call up to the await of aembed_documents
BuildCall(p, reports, force) ==
    /\ build[p].pc = "idle"
    /\ LET te == ReportsToEmbed(reports, force, text_cache)
           reset == force \/ ~index.built
           batch == IF reset THEN reports ELSE te
           index1 == IF reset THEN EmptyIndex ELSE index
           id_map1 == IF reset THEN <<>> ELSE id_map
           cache1 == IF reset THEN EmptyCache ELSE text_cache
           changed == <<index1.vecs, id_map1, cache1>> # contents
       IN  IF reports = <<>>
           THEN /\ bret' = Returned(0, 0)
                /\ UNCHANGED <<shared, build>>
           ELSE IF te = <<>> /\ index.built
           THEN /\ bret' = Returned(Len(id_map), 0)
                /\ UNCHANGED <<shared, build>>
           ELSE /\ index' = index1
                /\ id_map' = id_map1
                /\ text_cache' = cache1
                /\ IF batch = <<>>
                   THEN /\ bret' = Returned(Len(id_map1), 0)
                        /\ UNCHANGED build
                   ELSE IF ~apiKey
                   THEN /\ bret' = Raised("get_embeddings_model", 0)
                        /\ UNCHANGED build
                   ELSE /\ bret' = NoResult
                        /\ build' = [build EXCEPT ![p] =
                              [pc |-> "embedding", reports |-> reports, force |-> force,
                               batch |-> batch, wrote |-> changed]]
    /\ sret' = NoSearchResult
    /\ UNCHANGED <<apiKey, search>>

\* line 103: aembed_documents raises
BuildEmbedRaises(p) ==
    /\ build[p].pc = "embedding"
    /\ build' = [build EXCEPT ![p] = IdleBuild]
    /\ bret' = Raised("aembed_documents", 1)
    /\ sret' = NoSearchResult
    /\ UNCHANGED <<apiKey, shared, search>>

\* the vectors aembed_documents returns when it returns n of them for the batch
Embeddings(batch, n) ==
    [i \in 1..n |-> IF i <= Len(batch) THEN batch[i].text ELSE JunkVector]

\* lines 103-113: aembed_documents returns n vectors
BuildResume(p, n) ==
    /\ build[p].pc = "embedding"
    /\ Len(index.vecs) + n <= MaxIndex
    /\ Len(id_map) + Len(build[p].batch) <= MaxIndex
    /\ IF n = 0
       THEN \* normalize_vectors: np.linalg.norm(axis=1) of an array of shape (0,)
            /\ bret' = Raised("normalize_vectors", 1)
            /\ UNCHANGED shared
       ELSE /\ index' = [index EXCEPT !.vecs = @ \o Embeddings(build[p].batch, n)]
            /\ id_map' = id_map \o IdsOf(build[p].batch)
            /\ text_cache' = CacheAfter(text_cache, build[p].batch)
            /\ bret' = Returned(Len(id_map'), 1)
    /\ build' = [build EXCEPT ![p] = IdleBuild]
    /\ sret' = NoSearchResult
    /\ UNCHANGED <<apiKey, search>>

\* aembed_documents returns one vector per text
BuildFinish(p) == BuildResume(p, Len(build[p].batch))

\* aembed_documents returns fewer or more vectors than texts
BuildMismatch(p) ==
    \E n \in 0..(Len(build[p].batch) + 1) :
        n # Len(build[p].batch) /\ BuildResume(p, n)

\* ---- search_similar
\* the inner product of the normalized embedding of query q with vector v
Score(q, v) ==
    LET r == CASE v = "a" -> 1 [] v = "b" -> 2 [] OTHER -> 0
    IN  8 - ((3 * r + 2 * q + 5) % 7)

\* line 119: the threshold in force
Threshold(targ) == IF targ = <<>> THEN DefaultThreshold ELSE targ[1]

\* line 144: what _index.search can answer for k neighbours: k distinct positions,
\* best score first, no position left out that beats one returned; equal
\* scores come in an order the index chooses
IndexSearch(vecs, q, k) ==
    LET n == Len(vecs)
        sc(i) == Score(q, vecs[i])
        picks == {h \in [1..k -> 1..n] :
                    /\ \A i, j \in 1..k : i < j => (h[i] # h[j] /\ sc(h[i]) >= sc(h[j]))
                    /\ \A m \in 1..n :
                          (\A i \in 1..k : h[i] # m) => sc(m) <= sc(h[k])}
    IN  {[i \in 1..k |-> [pos |-> h[i], score |-> sc(h[i])]] : h \in picks}

\* a filter that drops the hits that score exactly the threshold
PassingStrictly(hits, thr) ==
    SelectSeq(hits, LAMBDA h : h.pos >= 1 /\ h.score > thr)

\* line 149: the hits that are kept
Passing(hits, thr) ==
    SelectSeq(hits, LAMBDA h : h.pos >= 1 /\ h.score >= thr)

\* a loop that puts each kept hit in front of the list
ResultsPrepended(hits, thr, ids) ==
    LET kept == Passing(hits, thr)
    IN  [i \in 1..Len(kept) |->
            [id |-> ids[kept[Len(kept) + 1 - i].pos],
             score |-> kept[Len(kept) + 1 - i].score]]

\* a loop that appends each kept hit twice
ResultsTwice(hits, thr, ids) ==
    LET kept == Passing(hits, thr)
    IN  [i \in 1..(2 * Len(kept)) |->
            [id |-> ids[kept[(i + 1) \div 2].pos], score |-> kept[(i + 1) \div 2].score]]

\* lines 147-150: the list built from the hits
Results(hits, thr, ids) ==
    LET kept == Passing(hits, thr)
    IN  [i \in 1..Len(kept) |-> [id |-> ids[kept[i].pos], score |-> kept[i].score]]

SearchReturned(k, hits, results) ==
    [status |-> "ok", at |-> "", query |-> search.query, top_k |-> search.top_k,
     targ |-> search.targ, calls |-> 1, k |-> k, hits |-> hits,
     results |-> results]
SearchRaised(at, k, hits) ==
    [status |-> "raised", at |-> at, query |-> search.query,
     top_k |-> search.top_k, targ |-> search.targ, calls |-> 1, k |-> k,
     hits |-> hits, results |-> <<>>]

\* a call that returns at once only when there is no index at all
SearchCallOnlyAbsent(q, top_k, targ) ==
    /\ search.pc = "idle"
    /\ IF ~index.built
       THEN /\ sret' = [status |-> "ok", at |-> "", query |-> q, top_k |-> top_k,
                        targ |-> targ, calls |-> 0, k |-> 0, hits |-> <<>>,
                        results |-> <<>>]
            /\ UNCHANGED search
       ELSE IF ~apiKey
       THEN /\ sret' = [status |-> "raised", at |-> "get_embeddings_model",
                        query |-> q, top_k |-> top_k, targ |-> targ, calls |-> 0,
                        k |-> 0, hits |-> <<>>, results |-> <<>>]
            /\ UNCHANGED search
       ELSE /\ sret' = NoSearchResult
            /\ search' = [pc |-> "embedding", query |-> q, top_k |-> top_k,
                          targ |-> targ]
    /\ bret' = NoResult
    /\ UNCHANGED <<apiKey, shared, build>>

\* lines 116-139: from the call up to the await of aembed_query
SearchCall(q, top_k, targ) ==
    /\ search.pc = "idle"
    /\ IF ~index.built \/ Len(index.vecs) = 0
       THEN /\ sret' = [status |-> "ok", at |-> "", query |-> q, top_k |-> top_k,
                        targ |-> targ, calls |-> 0, k |-> 0, hits |-> <<>>,
                        results |-> <<>>]
            /\ UNCHANGED search
       ELSE IF ~apiKey
       THEN /\ sret' = [status |-> "raised", at |-> "get_embeddings_model",
                        query |-> q, top_k |-> top_k, targ |-> targ, calls |-> 0,
                        k |-> 0, hits |-> <<>>, results |-> <<>>]
            /\ UNCHANGED search
       ELSE /\ sret' = NoSearchResult
            /\ search' = [pc |-> "embedding", query |-> q, top_k |-> top_k,
                          targ |-> targ]
    /\ bret' = NoResult
    /\ UNCHANGED <<apiKey, shared, build>>

\* line 139: aembed_query raises
SearchEmbedRaises ==
    /\ search.pc = "embedding"
    /\ search' = IdleSearch
    /\ sret' = SearchRaised("aembed_query", 0, <<>>)
    /\ bret' = NoResult
    /\ UNCHANGED <<apiKey, shared, build>>

\* lines 139-152: aembed_query returns; the rest runs on the globals as they
\* are now
SearchResume ==
    /\ search.pc = "embedding"
    /\ LET k == Min(search.top_k, Len(index.vecs))
           thr == Threshold(search.targ)
       IN  IF k < 0
           THEN \* _index.search: no array of a negative size
                sret' = SearchRaised("_index.search", k, <<>>)
           ELSE IF k = 0
           THEN \* _index.search: FAISS asserts k > 0, older releases answer nothing
                \/ sret' = SearchRaised("_index.search", k, <<>>)
                \/ sret' = SearchReturned(k, <<>>, <<>>)
           ELSE \E hits \in IndexSearch(index.vecs, search.query, k) :
                   IF \E i \in 1..Len(hits) :
                         hits[i].score >= thr /\ hits[i].pos > Len(id_map)
                   THEN \* line 150: _id_map[idx] raises IndexError
                        sret' = SearchRaised("_id_map[idx]", k, hits)
                   ELSE sret' = SearchReturned(k, hits, Results(hits, thr, id_map))
    /\ search' = IdleSearch
    /\ bret' = NoResult
    /\ UNCHANGED <<apiKey, shared, build>>

\* ---- tools.py: vector_search
\* one task runs vector_search; it is the task "b1" of build_index
IdleTool == [pc |-> "idle", query |-> 1, top_k |-> 0]
NoOutput ==
    [matching_ids |-> <<>>, scores |-> <<>>, total_indexed |-> 0, match_count |-> 0]
\* tret: onEmpty is whether search_similar was called on an index that was
\* absent or held no vector; calls is the number of aembed_query calls
NoToolResult ==
    [status |-> "none", at |-> "", onEmpty |-> FALSE, calls |-> 0, out |-> NoOutput]
ToolRaised(at, onEmpty, calls) ==
    [status |-> "raised", at |-> at, onEmpty |-> onEmpty, calls |-> calls,
     out |-> NoOutput]

\* lines 40-45: the dictionary returned; scores lists (id, score) in the order
\* the dictionary comprehension inserts the keys, a later pair of an id
\* replacing the score of an earlier one
VectorSearchOutput(results, size) ==
    LET last(id) == CHOOSE i \in 1..Len(results) :
                        /\ results[i].id = id
                        /\ \A j \in (i + 1)..Len(results) : results[j].id # id
        firsts == SelectSeq([i \in 1..Len(results) |-> i],
                            LAMBDA i : \A j \in 1..(i - 1) : results[j].id # results[i].id)
    IN  [matching_ids |-> [i \in 1..Len(results) |-> results[i].id],
         scores |-> [n \in 1..Len(firsts) |->
                        [id |-> results[firsts[n]].id,
                         score |-> results[last(results[firsts[n]].id)].score]],
         total_indexed |-> size,
         match_count |-> Len(results)]

\* how a build_index step that has ended leaves the vector_search task
AfterBuild(q, top_k) ==
    CASE bret'.status = "ok" ->
            /\ tool' = [pc |-> "built", query |-> q, top_k |-> top_k]
            /\ tret' = NoToolResult
      [] bret'.status = "raised" ->
            /\ tool' = IdleTool
            /\ tret' = ToolRaised("build_index", FALSE, 0)
      [] OTHER ->
            /\ tool' = [pc |-> "build_index", query |-> q, top_k |-> top_k]
            /\ tret' = NoToolResult

\* how a search_similar step that has ended leaves the vector_search task
AfterSearch(onEmpty) ==
    CASE sret'.status = "ok" ->
            /\ tool' = IdleTool
            /\ tret' = [status |-> "ok", at |-> "", onEmpty |-> onEmpty,
                        calls |-> sret'.calls,
                        out |-> VectorSearchOutput(sret'.results, Len(index.vecs))]
      [] sret'.status = "raised" ->
            /\ tool' = IdleTool
            /\ tret' = ToolRaised("search_similar", onEmpty, sret'.calls)
      [] OTHER ->
            /\ tool' = [tool EXCEPT !.pc = "search_similar"]
            /\ tret' = NoToolResult

\* lines 28-29: get_all_reports, then build_index(reports) up to its await or
\* its return
VectorSearchCall(reports, q, top_k) ==
    /\ tool.pc = "idle"
    /\ BuildCall("b1", reports, FALSE)
    /\ AfterBuild(q, top_k)

\* line 29: the await of build_index ends
VectorSearchBuildEnds ==
    /\ tool.pc = "build_index"
    /\ \/ BuildFinish("b1")
       \/ BuildMismatch("b1")
       \/ BuildEmbedRaises("b1")
    /\ AfterBuild(tool.query, tool.top_k)

\* line 32: search_similar(query, top_k=top_k) up to its await or its return;
\* no other task runs between the return of build_index and this call
VectorSearchQuery ==
    /\ tool.pc = "built"
    /\ SearchCall(tool.query, tool.top_k, <<>>)
    /\ AfterSearch(~index.built \/ Len(index.vecs) = 0)

\* lines 32-45: the await of search_similar ends
VectorSearchQueryEnds ==
    /\ tool.pc = "search_similar"
    /\ \/ SearchResume
       \/ SearchEmbedRaises
    /\ AfterSearch(FALSE)

\* ---- tools.py and db.py: the filter tools
\* a string is the sequence of its characters
Uppers ==
    <<"A", "B", "C", "D", "E", "F", "G", "H", "I", "J", "K", "L", "M",
      "N", "O", "P", "Q", "R", "S", "T", "U", "V", "W", "X", "Y", "Z">>
Lowers ==
    <<"a", "b", "c", "d", "e", "f", "g", "h", "i", "j", "k", "l", "m",
      "n", "o", "p", "q", "r", "s", "t", "u", "v", "w", "x", "y", "z">>
\* the characters str.strip() removes, of those the inputs hold
Whitespace == {" ", "\t", "\n"}

\* the lower-case letter of each upper-case letter
LowerOf ==
    [c \in Range(Uppers) |-> Lowers[CHOOSE n \in 1..Len(Uppers) : Uppers[n] = c]]
\* str.lower()
Lower(s) ==
    [i \in 1..Len(s) |-> IF s[i] \in DOMAIN LowerOf THEN LowerOf[s[i]] ELSE s[i]]
\* str.replace(old, new) for one-character old and new
Replace(s, old, new) == [i \in 1..Len(s) |-> IF s[i] = old THEN new ELSE s[i]]
\* str.strip()
Strip(s) ==
    LET keep == {i \in 1..Len(s) : s[i] \notin Whitespace}
    IN  IF keep = {} THEN <<>>
        ELSE SubSeq(s, CHOOSE i \in keep : \A j \in keep : i <= j,
                       CHOOSE i \in keep : \A j \in keep : i >= j)

\* the values the tools accept
broken_sidewalk == <<"b", "r", "o", "k", "e", "n", "_", "s", "i", "d", "e", "w", "a", "l", "k">>
missing_ramp == <<"m", "i", "s", "s", "i", "n", "g", "_", "r", "a", "m", "p">>
blocked_path == <<"b", "l", "o", "c", "k", "e", "d", "_", "p", "a", "t", "h">>
steep_grade == <<"s", "t", "e", "e", "p", "_", "g", "r", "a", "d", "e">>
poor_lighting == <<"p", "o", "o", "r", "_", "l", "i", "g", "h", "t", "i", "n", "g">>
narrow_passage == <<"n", "a", "r", "r", "o", "w", "_", "p", "a", "s", "s", "a", "g", "e">>
uneven_surface == <<"u", "n", "e", "v", "e", "n", "_", "s", "u", "r", "f", "a", "c", "e">>
other == <<"o", "t", "h", "e", "r">>
low == <<"l", "o", "w">>
medium == <<"m", "e", "d", "i", "u", "m">>
high == <<"h", "i", "g", "h">>
draft == <<"d", "r", "a", "f", "t">>
open == <<"o", "p", "e", "n">>
acknowledged == <<"a", "c", "k", "n", "o", "w", "l", "e", "d", "g", "e", "d">>
in_progress == <<"i", "n", "_", "p", "r", "o", "g", "r", "e", "s", "s">>
resolved == <<"r", "e", "s", "o", "l", "v", "e", "d">>
valid_categories ==
    <<broken_sidewalk, missing_ramp, blocked_path, steep_grade, poor_lighting,
      narrow_passage, uneven_surface, other>>
valid_severities == <<low, medium, high>>
valid_statuses == <<draft, open, acknowledged, in_progress, resolved>>

\* strings a caller passes
MissingRampTitle == <<"M", "i", "s", "s", "i", "n", "g", " ", "R", "a", "m", "p">>
MissingRampHyphen == <<"m", "i", "s", "s", "i", "n", "g", "-", "r", "a", "m", "p">>
MissingRampUpper == <<"M", "I", "S", "S", "I", "N", "G", "_", "R", "A", "M", "P">>
MissingRampPadded == <<" ", "m", "i", "s", "s", "i", "n", "g", "_", "r", "a", "m", "p", " ">>
MissingRampTab == <<"m", "i", "s", "s", "i", "n", "g", "\t", "r", "a", "m", "p">>
Ramp == <<"r", "a", "m", "p">>
EmptyString == <<>>
HighTitle == <<"H", "i", "g", "h">>
HighPadded == <<" ", "h", "i", "g", "h", "\n">>
HighSpaced == <<"h", "i", " ", "g", "h">>
InProgressTitle == <<"I", "n", " ", "P", "r", "o", "g", "r", "e", "s", "s">>
InProgressPadded == <<" ", "i", "n", "-", "p", "r", "o", "g", "r", "e", "s", "s", " ">>
OpenUpper == <<"O", "P", "E", "N">>
Urgent == <<"u", "r", "g", "e", "n", "t">>
FilterInputs ==
    {MissingRampTitle, MissingRampHyphen, MissingRampUpper, MissingRampPadded,
     MissingRampTab, Ramp, EmptyString, missing_ramp, other,
     HighTitle, HighPadded, HighSpaced, high, low,
     InProgressTitle, InProgressPadded, OpenUpper, open, Urgent}

\* the documents of the reports collection, in the order sort('createdAt', -1)
\* yields them, reduced to _id and the fields the queries test
StoredIds == <<"r1", "r2", "r3", "r4">>
MaxStored == 3
StoredFields ==
    {[category |-> missing_ramp, severity |-> high, status |-> open],
     [category |-> missing_ramp, severity |-> low, status |-> in_progress],
     [category |-> other, severity |-> high, status |-> open]}
Stores ==
    UNION {[up : BOOLEAN,
            reports : {[i \in 1..n |->
                          [id |-> StoredIds[i], category |-> f[i].category,
                           severity |-> f[i].severity, status |-> f[i].status]] :
                       f \in [1..n -> StoredFields]}] :
           n \in 0..Min(MaxStored, Len(StoredIds))}
EmptyStore == [up |-> TRUE, reports |-> <<>>]

\* db.py line 81: limit(500), scaled to the stores of the model
FilterLimit == 2

\* db.py lines 63-86: filter_reports on a collection that holds docs; an
\* argument is <<>> for None and <<s>> for the string s
FilterReports(docs, category, severity, status) ==
    LET given(arg) == arg # <<>> /\ arg[1] # <<>>
        matches(r) ==
            /\ given(category) => r.category = category[1]
            /\ given(severity) => r.severity = severity[1]
            /\ given(status) => r.status = status[1]
        found == SelectSeq(docs, matches)
    IN  SubSeq(found, 1, Min(Len(found), FilterLimit))

\* a normalization that leaves hyphens as they are
CategoryNormalizedSpacesOnly(category) == Replace(Lower(category), " ", "_")

\* tools.py line 68
CategoryNormalized(category) ==
    Replace(Replace(Lower(category), " ", "_"), "-", "_")
\* tools.py line 96
SeverityNormalized(severity) == Strip(Lower(severity))
\* tools.py line 125
StatusNormalized(status) ==
    Replace(Replace(Strip(Lower(status)), " ", "_"), "-", "_")

\* what a filter tool does: normalized is the value it looked up, queried is
\* whether it called filter_reports, out is the dictionary it returns when the
\* collection answers
InvalidResult(normalized, message) ==
    [normalized |-> normalized, queried |-> FALSE,
     out |-> [error |-> message, matching_ids |-> <<>>]]
MatchResult(normalized, reports) ==
    [normalized |-> normalized, queried |-> TRUE,
     out |-> [matching_ids |-> [i \in 1..Len(reports) |-> reports[i].id],
              match_count |-> Len(reports),
              value |-> normalized]]

\* tools.py lines 49-80
FilterByCategory(docs, category) ==
    LET normalized == CategoryNormalized(category)
    IN  IF normalized \notin Range(valid_categories)
        THEN InvalidResult(normalized, "Invalid category")
        ELSE MatchResult(normalized, FilterReports(docs, <<normalized>>, <<>>, <<>>))

\* a severity filter that looks up whatever it is given
FilterBySeverityUnchecked(docs, severity) ==
    LET normalized == SeverityNormalized(severity)
    IN  MatchResult(normalized, FilterReports(docs, <<>>, <<normalized>>, <<>>))

\* tools.py lines 83-109
FilterBySeverity(docs, severity) ==
    LET normalized == SeverityNormalized(severity)
    IN  IF normalized \notin Range(valid_severities)
        THEN InvalidResult(normalized, "Invalid severity")
        ELSE MatchResult(normalized, FilterReports(docs, <<>>, <<normalized>>, <<>>))

\* tools.py lines 112-138
FilterByStatus(docs, status) ==
    LET normalized == StatusNormalized(status)
    IN  IF normalized \notin Range(valid_statuses)
        THEN InvalidResult(normalized, "Invalid status")
        ELSE MatchResult(normalized, FilterReports(docs, <<>>, <<>>, <<normalized>>))

FilterTools == {"filter_by_category", "filter_by_severity", "filter_by_status"}
FilterTool(name, docs, input) ==
    CASE name = "filter_by_category" -> FilterByCategory(docs, input)
      [] name = "filter_by_severity" -> FilterBySeverity(docs, input)
      [] name = "filter_by_status" -> FilterByStatus(docs, input)

NoFilterResult ==
    [status |-> "none", tool |-> "", input |-> <<>>, normalized |-> <<>>,
     queried |-> FALSE, out |-> <<>>]

\* a call of a filter tool: get_database raises when the collection does not
\* answer
FilterCall(name, input) ==
    LET r == FilterTool(name, store.reports, input)
    IN  /\ fret' = [status |-> IF r.queried /\ ~store.up THEN "raised" ELSE "ok",
                    tool |-> name, input |-> input, normalized |-> r.normalized,
                    queried |-> r.queried,
                    out |-> IF r.queried /\ ~store.up THEN <<>> ELSE r.out]
        /\ UNCHANGED <<apiKey, shared, build, bret, search, sret, tool, tret, store, run, graph, rtext, nvec, app>>

\* ---- agents: the plan, as a JSON value and as JSON text
\* a JSON value is [t, v]: v is the characters of a string, the items of a
\* list, the members of a dictionary in insertion order
JNull == [t |-> "null", v |-> <<>>]
JNumber == [t |-> "number", v |-> <<>>]
JStr(s) == [t |-> "str", v |-> s]
JList(items) == [t |-> "list", v |-> items]
JDict(members) == [t |-> "dict", v |-> members]
Member(key, val) == [key |-> key, val |-> val]

\* hasattr(x, 'get'): of the JSON values, only a dictionary has the method
IsDict(x) == x.t = "dict"
\* dict.get(key, default)
Get(d, key, default) ==
    IF \E i \in 1..Len(d.v) : d.v[i].key = key
    THEN d.v[CHOOSE i \in 1..Len(d.v) : d.v[i].key = key].val
    ELSE default
\* bool(x); the number of the model is not zero
Truthy(x) ==
    CASE x.t = "null" -> FALSE
      [] x.t = "number" -> TRUE
      [] OTHER -> x.v # <<>>

\* JSON text is the sequence of its tokens; a string token carries its characters
Tok(k) == [k |-> k, v |-> <<>>]
StrTok(s) == [k |-> "str", v |-> s]
\* the Markdown marks of a code block: three backquotes, with or without json
Fences == {"fence json", "fence"}

\* json.dumps
RECURSIVE Dumps(_), DumpItems(_), DumpMembers(_)
Dumps(x) ==
    CASE x.t = "null" -> <<Tok("null")>>
      [] x.t = "number" -> <<Tok("number")>>
      [] x.t = "str" -> <<StrTok(x.v)>>
      [] x.t = "list" -> <<Tok("[")>> \o DumpItems(x.v) \o <<Tok("]")>>
      [] x.t = "dict" -> <<Tok("{")>> \o DumpMembers(x.v) \o <<Tok("}")>>
DumpItems(items) ==
    IF items = <<>> THEN <<>>
    ELSE Dumps(Head(items))
         \o (IF Tail(items) = <<>> THEN <<>> ELSE <<Tok(",")>> \o DumpItems(Tail(items)))
DumpMembers(members) ==
    IF members = <<>> THEN <<>>
    ELSE <<StrTok(Head(members).key), Tok(":")>> \o Dumps(Head(members).val)
         \o (IF Tail(members) = <<>> THEN <<>>
             ELSE <<Tok(",")>> \o DumpMembers(Tail(members)))

\* json.loads: ok is FALSE where it raises JSONDecodeError
NotParsed == [ok |-> FALSE, value |-> JNull, rest |-> <<>>]
Parsed(value, rest) == [ok |-> TRUE, value |-> value, rest |-> rest]
RECURSIVE ParseValue(_), ParseItems(_, _), ParseMembers(_, _)
ParseValue(toks) ==
    IF toks = <<>> THEN NotParsed
    ELSE LET h == Head(toks).k
             rest == Tail(toks)
         IN  CASE h = "null" -> Parsed(JNull, rest)
               [] h = "number" -> Parsed(JNumber, rest)
               [] h = "str" -> Parsed(JStr(Head(toks).v), rest)
               [] h = "[" ->
                    IF rest # <<>> /\ Head(rest).k = "]"
                    THEN Parsed(JList(<<>>), Tail(rest))
                    ELSE ParseItems(rest, <<>>)
               [] h = "{" ->
                    IF rest # <<>> /\ Head(rest).k = "}"
                    THEN Parsed(JDict(<<>>), Tail(rest))
                    ELSE ParseMembers(rest, <<>>)
               [] OTHER -> NotParsed
ParseItems(toks, items) ==
    LET r == ParseValue(toks)
    IN  IF ~r.ok \/ r.rest = <<>> THEN NotParsed
        ELSE CASE Head(r.rest).k = "," ->
                     ParseItems(Tail(r.rest), Append(items, r.value))
               [] Head(r.rest).k = "]" ->
                     Parsed(JList(Append(items, r.value)), Tail(r.rest))
               [] OTHER -> NotParsed
ParseMembers(toks, members) ==
    IF Len(toks) < 3 \/ toks[1].k # "str" \/ toks[2].k # ":" THEN NotParsed
    ELSE LET r == ParseValue(SubSeq(toks, 3, Len(toks)))
             member == Member(toks[1].v, r.value)
         IN  IF ~r.ok \/ r.rest = <<>> THEN NotParsed
             ELSE CASE Head(r.rest).k = "," ->
                          ParseMembers(Tail(r.rest), Append(members, member))
                    [] Head(r.rest).k = "}" ->
                          Parsed(JDict(Append(members, member)), Tail(r.rest))
                    [] OTHER -> NotParsed
Loads(toks) ==
    LET r == ParseValue(toks)
    IN  IF r.ok /\ r.rest = <<>> THEN r ELSE NotParsed

\* lines 81 and 59: the content without the marks of a code block
Unfenced(content) == SelectSeq(content, LAMBDA tok : tok.k \notin Fences)

\* ---- agents: what the collaborators of a pipeline run can answer
\* the user's query, and the query and the note a planner writes
RawQuery == <<"r", "a", "m", "p", "s">>
SemanticQuery == <<"n", "o", " ", "r", "a", "m", "p">>
Reasoning == <<"w", "h", "y">>

\* the value of "filters" in a plan the planner writes: null, an empty or a
\* filled dictionary, or a string in place of the dictionary
PlanFilters ==
    {JNull, JDict(<<>>), JStr(high), JDict(<<Member("severity", JStr(high))>>)}
    \cup {JDict(<<Member("severity", sv), Member("category", cv), Member("status", st)>>) :
            sv \in {JNull, JStr(HighTitle), JStr(Urgent)},
            cv \in {JNull, JStr(MissingRampTitle)},
            st \in {JNull, JStr(OpenUpper)}}
\* the JSON values the planner's text can stand for
PlanValues ==
    {JNull, JNumber, JStr(SemanticQuery), JList(<<>>), JDict(<<>>),
     JDict(<<Member("filters", JDict(<<>>))>>),
     JDict(<<Member("semantic_query", JStr(SemanticQuery)),
             Member("reasoning", JStr(Reasoning))>>)}
    \cup {JDict(<<Member("semantic_query", JStr(SemanticQuery)), Member("filters", f),
                  Member("reasoning", JStr(Reasoning))>>) : f \in PlanFilters}
\* the content of the planner's message: JSON text, bare or fenced, prose, text
\* cut short, or nothing
PlannerContents ==
    {Dumps(x) : x \in PlanValues}
    \cup {<<Tok("fence json")>> \o Dumps(JDict(<<Member("filters", JNull)>>)) \o <<Tok("fence")>>,
          <<Tok("prose")>>, <<Tok("{"), StrTok("filters"), Tok(":")>>, <<>>}
\* what llm.invoke does: it raises, or returns a message with a content
LlmRaises == [raised |-> TRUE, content |-> <<>>]
LlmSays(content) == [raised |-> FALSE, content |-> content]
PlannerResponses == {LlmRaises} \cup {LlmSays(c) : c \in PlannerContents}

\* the ranked ids vector search yields: reports of the collection, none twice
MaxCandidates == 3
CandidateIds == {StoredIds[i] : i \in 1..Min(MaxStored, Len(StoredIds))}
CandidateLists ==
    UNION {{c \in [1..n -> CandidateIds] : \A i, j \in 1..n : i # j => c[i] # c[j]} :
           n \in 0..MaxCandidates}
\* build_index and search_similar raise, or search_similar returns
RetrievalOutcomes ==
    {[raised |-> TRUE, ids |-> <<>>]} \cup {[raised |-> FALSE, ids |-> c] : c \in CandidateLists}
\* the documents the collection holds when the filters of a run query it
PipelineDocs == {st.reports : st \in {s \in Stores : Len(s.reports) = Len(StoredIds) \/ Len(s.reports) = MaxStored}}

\* ---- agents/search_agent.py: search_agent_query
\* the state of a run; plan is the plan as a value, search_plan the plan as
\* JSON text; docs is what the collection held when the filters queried it,
\* applied lists the id lists the filters returned, invalid the filters that
\* answered with an error; trace lists the stages entered, agents is the
\* trace of AgentState; result is the dictionary returned
IdleRun ==
    [variant |-> "none", status |-> "none", pc |-> "idle", at |-> "",
     query |-> <<>>, fallback |-> FALSE, plan |-> JNull, search_plan |-> <<>>,
     searched |-> <<>>, candidates |-> <<>>, reviewed |-> <<>>, advisory |-> FALSE,
     refined |-> <<>>, docs |-> <<>>, applied |-> <<>>, invalid |-> <<>>,
     matching |-> <<>>, messages |-> <<>>, summary |-> "", trace |-> <<>>,
     agents |-> <<>>, result |-> <<>>]
\* what a run of the agent graph leaves alone
outsideGraph == <<apiKey, shared, build, bret, search, sret, tool, tret, store, fret, run, rtext, nvec, app>>
\* what a run leaves alone
outside == <<apiKey, shared, build, bret, search, sret, tool, tret, store, fret, graph, rtext, nvec, app>>

\* the run raises at a place of the code while in a stage
RunRaises(stage, at) ==
    [run EXCEPT !.status = "raised", !.pc = "idle", !.at = at,
                !.trace = IF Len(@) > 0 /\ @[Len(@)] = stage THEN @ ELSE Append(@, stage)]

\* a fallback that forgets the user's query
FallbackPlanNoQuery(query) ==
    JDict(<<Member("semantic_query", JStr(<<>>)), Member("filters", JDict(<<>>)),
            Member("reasoning", JStr(Reasoning))>>)

\* search_agent.py lines 87-91, intent_analyst.py lines 66-70
FallbackPlan(query) ==
    JDict(<<Member("semantic_query", JStr(query)), Member("filters", JDict(<<>>)),
            Member("reasoning", JStr(Reasoning))>>)

\* search_agent.py lines 75-91
SearchAgentPlan(query, response) ==
    LET parsed == Loads(Unfenced(response.content))
    IN  IF response.raised \/ ~parsed.ok
        THEN [fallback |-> TRUE, plan |-> FallbackPlan(query)]
        ELSE [fallback |-> FALSE, plan |-> parsed.value]

\* a filter step that lists the filter's ids that are candidates, in the
\* filter's order
IntersectInFilterOrder(matching_ids, found) ==
    SelectSeq(found, LAMBDA id : id \in Range(matching_ids))

\* search_agent.py lines 109-110, search_specialist.py lines 95-96
Intersect(matching_ids, found) ==
    SelectSeq(matching_ids, LAMBDA id : id \in Range(found))

\* one filter of the plan: applied when its value is truthy
ApplyFilter(name, value, docs, acc) ==
    IF ~Truthy(value) THEN acc
    ELSE LET out == FilterTool(name, docs, value.v).out
             found == out.matching_ids
         IN  [matching |-> Intersect(acc.matching, found),
              applied |-> Append(acc.applied, found),
              invalid |-> IF "error" \in DOMAIN out THEN Append(acc.invalid, name)
                          ELSE acc.invalid]

\* lines 54-91: PlanExtraction
SearchAgentPlans(query, response) ==
    /\ run.status = "none"
    /\ LET p == SearchAgentPlan(query, response)
       IN  run' = [IdleRun EXCEPT !.variant = "search_agent", !.status = "running",
                                  !.pc = "CandidateRetrieval", !.query = query,
                                  !.fallback = p.fallback, !.plan = p.plan,
                                  !.trace = <<"PlanExtraction">>]
    /\ UNCHANGED outside

\* lines 93-102: CandidateRetrieval, with the query as the user gave it
SearchAgentRetrieves(outcome) ==
    /\ run.variant = "search_agent" /\ run.pc = "CandidateRetrieval"
    /\ run' = IF outcome.raised
              THEN RunRaises("CandidateRetrieval", "vector search")
              ELSE [run EXCEPT !.pc = "FilterIntersection", !.searched = run.query,
                               !.candidates = outcome.ids, !.refined = outcome.ids,
                               !.matching = outcome.ids,
                               !.trace = Append(@, "CandidateRetrieval")]
    /\ UNCHANGED outside

\* lines 104-117: FilterIntersection, on a collection that holds docs
SearchAgentFilters(docs) ==
    /\ run.variant = "search_agent" /\ run.pc = "FilterIntersection"
    /\ LET filters == Get(run.plan, "filters", JDict(<<>>))
           start == [matching |-> run.matching, applied |-> <<>>, invalid |-> <<>>]
           bySeverity ==
               ApplyFilter("filter_by_severity", Get(filters, "severity", JNull),
                           docs, start)
           byCategory ==
               ApplyFilter("filter_by_category", Get(filters, "category", JNull),
                           docs, bySeverity)
       IN  IF ~IsDict(run.plan)
           THEN run' = RunRaises("FilterIntersection", "search_plan.get")
           ELSE IF ~IsDict(filters)
           THEN run' = RunRaises("FilterIntersection", "filters.get")
           ELSE run' = [run EXCEPT !.pc = "Synthesis",
                                   !.matching = byCategory.matching,
                                   !.applied = byCategory.applied,
                                   !.invalid = byCategory.invalid,
                                   !.docs = IF byCategory.applied = <<>> THEN <<>> ELSE docs,
                                   !.trace = Append(@, "FilterIntersection")]
    /\ UNCHANGED outside

\* lines 119-133: Synthesis, and the return
SearchAgentSynthesizes ==
    /\ run.variant = "search_agent" /\ run.pc = "Synthesis"
    /\ LET summary == IF run.matching # <<>> THEN "Found" ELSE "No reports found"
       IN  run' = [run EXCEPT !.status = "done", !.pc = "Done",
                              !.summary = summary,
                              !.trace = @ \o <<"Synthesis", "Done">>,
                              !.result = [matchingIds |-> run.matching,
                                          summary |-> summary,
                                          reasoning |-> Get(run.plan, "reasoning", JStr(<<>>)),
                                          matchCount |-> Len(run.matching),
                                          agent |-> "search_agent"]]
    /\ UNCHANGED outside

\* ---- agents: intent_analyst_node, search_specialist_node, supervisor_node
\* a list of ids as a JSON value, an id being a string of one symbol
IdList(ids) == JList([i \in 1..Len(ids) |-> JStr(<<ids[i]>>)])
KeptIds(x) == [i \in 1..Len(x.v) |-> x.v[i].v[1]]

\* search_specialist.py line 55 is candidate_ids[:10]; the model reviews the
\* first ReviewedTop
ReviewedTop == 2
Reviewed(candidate_ids) == SubSeq(candidate_ids, 1, Min(ReviewedTop, Len(candidate_ids)))

\* the answers of the reviewer: ids it keeps, in any order, its own included
MaxKept == 2
KeptLists ==
    UNION {{c \in [1..n -> CandidateIds] : \A i, j \in 1..n : i # j => c[i] # c[j]} :
           n \in 0..MaxKept}
ReviewerContents ==
    {Dumps(IdList(k)) : k \in KeptLists}
    \cup {<<Tok("fence json")>> \o Dumps(IdList(<<>>)) \o <<Tok("fence")>>,
          Dumps(JNull), Dumps(JNumber), <<Tok("prose")>>, <<Tok("["), StrTok(<<"r1">>)>>}
ReviewerResponses == {LlmRaises} \cup {LlmSays(c) : c \in ReviewerContents}

\* intent_analyst.py lines 48-70: the plan, as JSON text
AnalystPlan(query, response) ==
    LET parsed == Loads(Unfenced(response.content))
    IN  IF response.raised \/ response.content = <<>> \/ ~parsed.ok
        THEN [fallback |-> TRUE, search_plan |-> Dumps(FallbackPlan(query))]
        ELSE [fallback |-> FALSE, search_plan |-> Dumps(parsed.value)]

\* a review that hands on the slice it reviewed when the reviewer fails
RefinedOrReviewed(candidate_ids, response) ==
    LET parsed == Loads(Unfenced(response.content))
    IN  IF response.raised \/ ~parsed.ok \/ parsed.value.t \in {"null", "number"}
        THEN [advisory |-> TRUE, ids |-> Reviewed(candidate_ids)]
        ELSE [advisory |-> FALSE, ids |-> KeptIds(parsed.value)]

\* search_specialist.py lines 81-89: len() of null or of a number raises inside
\* the try; the answers of the model are lists, null, a number, or no JSON
Refined(candidate_ids, response) ==
    LET parsed == Loads(Unfenced(response.content))
    IN  IF response.raised \/ ~parsed.ok \/ parsed.value.t \in {"null", "number"}
        THEN [advisory |-> TRUE, ids |-> candidate_ids]
        ELSE [advisory |-> FALSE, ids |-> KeptIds(parsed.value)]

\* supervisor.py lines 16-48 on the tool outputs of the messages: the lists
\* that hold ids are intersected as sets
Supervised(outputs) ==
    LET lists == {i \in 1..Len(outputs) : outputs[i] # <<>>}
    IN  IF lists = {} THEN {}
        ELSE {id \in Range(outputs[CHOOSE i \in lists : TRUE]) :
                \A i \in lists : id \in Range(outputs[i])}
\* line 46: list(final_set) lists the set in an order the code does not choose
ListsOf(S) ==
    {c \in [1..Cardinality(S) -> S] : \A i, j \in 1..Cardinality(S) : i # j => c[i] # c[j]}

\* supervisor.py line 51: the plan read back, {} when there is none
PlanRead(search_plan) ==
    IF search_plan = <<>> THEN JDict(<<>>) ELSE Loads(search_plan).value

\* intent_analyst_node: PlanExtraction
AnalystPlans(query, response) ==
    /\ run.status = "none"
    /\ LET p == AnalystPlan(query, response)
       IN  run' = [IdleRun EXCEPT !.variant = "multi_agent", !.status = "running",
                                  !.pc = "CandidateRetrieval", !.query = query,
                                  !.fallback = p.fallback, !.search_plan = p.search_plan,
                                  !.trace = <<"PlanExtraction">>,
                                  !.agents = <<"intent_analyst">>]
    /\ UNCHANGED outside

\* search_specialist_node lines 24-47: the plan is read, then CandidateRetrieval
\* with the plan's query
SpecialistRetrieves(outcome) ==
    /\ run.variant = "multi_agent" /\ run.pc = "CandidateRetrieval"
    /\ LET plan == Loads(run.search_plan).value
           query == Get(plan, "semantic_query", JStr(<<>>))
       IN  run' = IF run.search_plan = <<>>
                  THEN [run EXCEPT !.pc = "Synthesis"]
                  ELSE IF ~IsDict(plan)
                  THEN RunRaises("PlanExtraction", "search_plan.get")
                  ELSE IF outcome.raised
                  THEN RunRaises("CandidateRetrieval", "vector search")
                  ELSE IF outcome.ids = <<>>
                  THEN [run EXCEPT !.pc = "Synthesis", !.plan = plan, !.searched = query.v,
                                   !.trace = Append(@, "CandidateRetrieval"),
                                   !.agents = Append(@, "search_specialist")]
                  ELSE [run EXCEPT !.pc = "RelevanceRefinement", !.plan = plan,
                                   !.searched = query.v, !.candidates = outcome.ids,
                                   !.trace = Append(@, "CandidateRetrieval")]
    /\ UNCHANGED outside

\* lines 49-89: RelevanceRefinement
SpecialistRefines(response) ==
    /\ run.variant = "multi_agent" /\ run.pc = "RelevanceRefinement"
    /\ LET r == Refined(run.candidates, response)
       IN  run' = [run EXCEPT !.pc = "FilterIntersection",
                              !.reviewed = Reviewed(run.candidates),
                              !.advisory = r.advisory, !.refined = r.ids,
                              !.matching = r.ids,
                              !.trace = Append(@, "RelevanceRefinement")]
    /\ UNCHANGED outside

\* lines 91-126: FilterIntersection on a collection that holds docs, and the
\* tool message
SpecialistFilters(docs) ==
    /\ run.variant = "multi_agent" /\ run.pc = "FilterIntersection"
    /\ LET filters == Get(run.plan, "filters", JDict(<<>>))
           start == [matching |-> run.matching, applied |-> <<>>, invalid |-> <<>>]
           bySeverity ==
               ApplyFilter("filter_by_severity", Get(filters, "severity", JNull),
                           docs, start)
           byCategory ==
               ApplyFilter("filter_by_category", Get(filters, "category", JNull),
                           docs, bySeverity)
           byStatus ==
               ApplyFilter("filter_by_status", Get(filters, "status", JNull),
                           docs, byCategory)
       IN  IF ~Truthy(filters)
           THEN run' = [run EXCEPT !.pc = "Synthesis", !.messages = <<run.matching>>,
                                   !.trace = Append(@, "FilterIntersection"),
                                   !.agents = Append(@, "search_specialist")]
           ELSE IF ~IsDict(filters)
           THEN run' = RunRaises("FilterIntersection", "filters.get")
           ELSE run' = [run EXCEPT !.pc = "Synthesis",
                                   !.matching = byStatus.matching,
                                   !.applied = byStatus.applied,
                                   !.invalid = byStatus.invalid,
                                   !.docs = IF byStatus.applied = <<>> THEN <<>> ELSE docs,
                                   !.messages = <<byStatus.matching>>,
                                   !.trace = Append(@, "FilterIntersection"),
                                   !.agents = Append(@, "search_specialist")]
    /\ UNCHANGED outside

\* supervisor_node: Synthesis, and the return
SupervisorSynthesizes ==
    /\ run.variant = "multi_agent" /\ run.pc = "Synthesis"
    /\ \E final \in ListsOf(Supervised(run.messages)) :
          LET summary == IF final # <<>> THEN "Found" ELSE "No reports matched"
          IN  run' = [run EXCEPT !.status = "done", !.pc = "Done", !.matching = final,
                                 !.summary = summary,
                                 !.trace = @ \o <<"Synthesis", "Done">>,
                                 !.agents = <<"supervisor">>,
                                 !.result = [matching_ids |-> final,
                                             final_response |-> summary,
                                             reasoning |-> Get(PlanRead(run.search_plan),
                                                               "reasoning", JStr(<<>>))]]
    /\ UNCHANGED outside

\* ---- agent.py: the agent graph of create_agent, run by run_search
\* the tools the model collaborator can ask for; all but get_report_stats
\* answer with a matching_ids key
GraphTools == {"vector_search", "filter_by_severity", "get_report_stats"}
MaxCalls == 2
ToolCallLists == UNION {[1..n -> GraphTools] : n \in 0..MaxCalls}
\* the content of a tool message: a dictionary with matching_ids, a dictionary
\* without the key, or the text of an error
IdsOutput(ids) == [kind |-> "ids", ids |-> ids]
StatsOutput == [kind |-> "stats", ids |-> <<>>]
ErrorOutput == [kind |-> "error", ids |-> <<>>]
ToolOutputs(name) ==
    IF name = "get_report_stats" THEN {StatsOutput, ErrorOutput}
    ELSE {ErrorOutput} \cup {IdsOutput(ids) : ids \in KeptLists}
\* the agent steps a run of the model takes at most
MaxSteps == 2

\* the state of run_search: the node to run, AgentState's messages (the tool
\* calls of the model's message, then the tool messages) and matching_ids;
\* invoked counts the tool invocations that answered with matching_ids, common
\* is what all of their answers hold, empties counts the empty ones
IdleGraph ==
    [node |-> "idle", calls |-> <<>>, messages |-> <<>>, matching_ids |-> <<>>,
     steps |-> 0, invoked |-> 0, common |-> {}, empties |-> 0, matchingIds |-> <<>>]

\* the messages whose content has a matching_ids key
WithIds(outputs) == SelectSeq(outputs, LAMBDA o : o.kind = "ids")
RECURSIVE CommonOf(_)
CommonOf(outputs) ==
    IF Len(outputs) = 1 THEN Range(outputs[1].ids)
    ELSE Range(Head(outputs).ids) \cap CommonOf(Tail(outputs))

\* process_tool_results lines 94-117: the last tool message only, and a list
\* that holds nothing starts over
Process(matching_ids, messages) ==
    IF messages = <<>> \/ messages[Len(messages)].kind # "ids" THEN matching_ids
    ELSE LET new_ids == messages[Len(messages)].ids
         IN  IF matching_ids = <<>> THEN new_ids
             ELSE SelectSeq(matching_ids, LAMBDA id : id \in Range(new_ids))

\* run_search lines 160-170: the initial state, and the entry point
RunSearch ==
    /\ graph.node = "idle"
    /\ graph' = [IdleGraph EXCEPT !.node = "agent"]
    /\ UNCHANGED outsideGraph

\* a routing that stops asking for tools once some ids are matched
ShouldContinueUntilMatched(state) ==
    IF state.calls # <<>> /\ state.matching_ids = <<>> THEN "tools" ELSE "END"

\* lines 67-77: the node after the agent node; state.calls is the tool_calls of
\* the last message
should_continue(state) ==
    IF state.calls # <<>> THEN "tools" ELSE "END"

\* call_model and should_continue: the model's message replaces the messages
CallModel(calls) ==
    /\ graph.node = "agent"
    /\ calls # <<>> => graph.steps < MaxSteps
    /\ graph' = [graph EXCEPT !.node = should_continue([graph EXCEPT !.calls = calls]),
                              !.calls = calls, !.messages = <<>>]
    /\ UNCHANGED outsideGraph

\* ToolNode: one tool message for each call, in the order of the calls
ToolsRun(outputs) ==
    /\ graph.node = "tools"
    /\ Len(outputs) = Len(graph.calls)
    /\ \A i \in 1..Len(outputs) : outputs[i] \in ToolOutputs(graph.calls[i])
    /\ LET withIds == WithIds(outputs)
       IN  graph' = [graph EXCEPT
                       !.node = "process", !.calls = <<>>, !.messages = outputs,
                       !.invoked = @ + Len(withIds),
                       !.common = IF withIds = <<>> THEN @
                                  ELSE IF graph.invoked = 0 THEN CommonOf(withIds)
                                  ELSE @ \cap CommonOf(withIds),
                       !.empties = @ + Len(SelectSeq(withIds, LAMBDA o : o.ids = <<>>))]
    /\ UNCHANGED outsideGraph

\* process_tool_results, and the edge back to the agent node
ProcessToolResults ==
    /\ graph.node = "process"
    /\ graph' = [graph EXCEPT !.node = "agent",
                              !.matching_ids = Process(graph.matching_ids, graph.messages),
                              !.steps = @ + 1]
    /\ UNCHANGED outsideGraph

\* run_search lines 172-197: the answer
RunSearchReturns ==
    /\ graph.node = "END"
    /\ graph' = [graph EXCEPT !.node = "returned", !.matchingIds = graph.matching_ids]
    /\ UNCHANGED outsideGraph

\* ---- tools.py: filter_by_location
\* the location of a document: the key is absent, or its value is null or a
\* dictionary; the dictionary's coordinates are absent, null or a list of
\* numbers or strings (an item carries its type).  The points of the model lie on the meridian 0, a unit
\* of latitude being one kilometre
Number(n) == [type |-> "number", v |-> n]
NotANumber == [type |-> "str", v |-> 0]
Coordinates(items) == [kind |-> "list", items |-> items]
NoCoordinates == [kind |-> "absent", items |-> <<>>]
NullCoordinates == [kind |-> "null", items |-> <<>>]
NoLocation == [kind |-> "absent", coordinates |-> NoCoordinates]
NullLocation == [kind |-> "null", coordinates |-> NoCoordinates]
Location(coordinates) == [kind |-> "dict", coordinates |-> coordinates]
Latitudes == {0, 1, 3}
Locations ==
    {NoLocation, NullLocation, Location(NoCoordinates), Location(NullCoordinates),
     Location(Coordinates(<<Number(0)>>)),
     Location(Coordinates(<<NotANumber, NotANumber>>))}
    \cup {Location(Coordinates(<<Number(0), Number(lat)>>)) : lat \in Latitudes}
MaxLocated == 2
LocatedStores ==
    UNION {[up : {TRUE},
            reports : {[i \in 1..n |-> [id |-> StoredIds[i], location |-> l[i]]] :
                       l \in [1..n -> Locations]}] :
           n \in 0..MaxLocated}
Centers == {0, 2}
Radii == {0, 1, 2}

\* lines 158-165 on the points of the model
Haversine(lat1, lon1, lat2, lon2) ==
    IF lat2 >= lat1 THEN lat2 - lat1 ELSE lat1 - lat2

\* line 181: list.sort is stable
RECURSIVE SortedByDistance(_)
SortedByDistance(results) ==
    IF results = <<>> THEN <<>>
    ELSE LET least == CHOOSE i \in 1..Len(results) :
                         /\ \A j \in 1..Len(results) :
                               results[i].distance_km <= results[j].distance_km
                         /\ \A j \in 1..(i - 1) :
                               results[j].distance_km > results[i].distance_km
         IN  <<results[least]>>
             \o SortedByDistance([k \in 1..(Len(results) - 1) |->
                                     IF k < least THEN results[k] ELSE results[k + 1]])

\* lines 167-178: the loop over the reports; it ends where a report raises
RECURSIVE Located(_, _, _, _, _)
Located(reports, lat, lng, radius_km, results) ==
    IF reports = <<>> THEN [raised |-> FALSE, results |-> results]
    ELSE LET report == Head(reports)
             location == report.location
             coords == IF location.kind = "absent" THEN Coordinates(<<>>)
                       ELSE IF location.coordinates.kind = "absent" THEN Coordinates(<<>>)
                       ELSE location.coordinates
         IN  IF location.kind = "null" \/ coords.kind = "null"
             THEN [raised |-> TRUE, results |-> results]
             ELSE IF Len(coords.items) # 2
             THEN Located(Tail(reports), lat, lng, radius_km, results)
             ELSE IF coords.items[1].type # "number" \/ coords.items[2].type # "number"
             THEN [raised |-> TRUE, results |-> results]
             ELSE LET distance == Haversine(lat, lng, coords.items[2].v, coords.items[1].v)
                  IN  Located(Tail(reports), lat, lng, radius_km,
                              IF distance <= radius_km
                              THEN Append(results, [id |-> report.id, distance_km |-> distance])
                              ELSE results)

\* lines 155-189: the dictionary returned, or the exception
FilterByLocation(docs, lat, lng, radius_km) ==
    LET scan == Located(docs, lat, lng, radius_km, <<>>)
        results == SortedByDistance(scan.results)
    IN  [raised |-> scan.raised,
         out |-> [matching_ids |-> [i \in 1..Len(results) |-> results[i].id],
                  distances |-> results,
                  match_count |-> Len(results),
                  center |-> [lat |-> lat, lng |-> lng],
                  radius_km |-> radius_km]]

LocationCall(lat, radius_km) ==
    LET r == FilterByLocation(store.reports, lat, 0, radius_km)
    IN  /\ fret' = [status |-> IF r.raised THEN "raised" ELSE "ok",
                    tool |-> "filter_by_location", input |-> <<lat, radius_km>>,
                    normalized |-> <<>>, queried |-> TRUE,
                    out |-> IF r.raised THEN <<>> ELSE r.out]
        /\ UNCHANGED <<apiKey, shared, build, bret, search, sret, tool, tret, store, run, graph, rtext, nvec, app>>

\* ---- embeddings.py: build_report_text
\* a report is a JSON dictionary; content and aiDraft are absent, null or a
\* dictionary, and each of their fields is absent, null or a string
TextFields == <<"title", "description", "category", "severity", "suggestedFix">>
FieldKinds == {"absent", "null", "str"}
\* the strings of the content fields, and those of the aiDraft fields
ContentStrings ==
    [title |-> <<"T">>, description |-> <<"D">>, category |-> <<"a", "_", "b">>,
     severity |-> <<"H">>, suggestedFix |-> <<"F">>]
DraftStrings ==
    [title |-> <<"t">>, description |-> <<"d">>, category |-> <<"c", "_", "d">>,
     severity |-> <<"h">>, suggestedFix |-> <<"f">>]
\* the dictionary whose field f is of kind kinds[f]
RECURSIVE MembersOf(_, _, _)
MembersOf(strings, kinds, n) ==
    IF n > Len(TextFields) THEN <<>>
    ELSE LET f == TextFields[n]
         IN  (CASE kinds[f] = "absent" -> <<>>
                [] kinds[f] = "null" -> <<Member(f, JNull)>>
                [] OTHER -> <<Member(f, JStr(strings[f]))>>)
             \o MembersOf(strings, kinds, n + 1)
SubDocuments(strings) ==
    {<<>>, <<JNull>>}
    \cup {<<JDict(MembersOf(strings, kinds, 1))>> : kinds \in [Range(TextFields) -> FieldKinds]}
TextReports ==
    {JDict((IF c = <<>> THEN <<>> ELSE <<Member("content", c[1])>>)
           \o (IF a = <<>> THEN <<>> ELSE <<Member("aiDraft", a[1])>>)) :
        c \in SubDocuments(ContentStrings), a \in SubDocuments(DraftStrings)}

\* a or b, where evaluating b raises: <<>> stands for the exception
OrElse(a, b) == IF a = <<>> THEN <<>> ELSE IF Truthy(a[1]) THEN a ELSE b
\* x.get(key): AttributeError where x has no method get
DotGet(x, key) == IF IsDict(x) THEN <<Get(x, key, JNull)>> ELSE <<>>
\* lines 46-50: content.get(f) or ai_draft.get(f) or ''
FieldText(content, ai_draft, f) ==
    OrElse(DotGet(content, f), OrElse(DotGet(ai_draft, f), <<JStr(<<>>)>>))

\* lines 43-55: the text returned, or the exception
build_report_text(report) ==
    LET content == Get(report, "content", JDict(<<>>))
        ai_draft == Get(report, "aiDraft", JDict(<<>>))
        got == [f \in Range(TextFields) |-> FieldText(content, ai_draft, f)]
    IN  IF \E f \in Range(TextFields) : got[f] = <<>>
        THEN [raised |-> TRUE, text |-> <<>>]
        ELSE [raised |-> FALSE,
              text |-> Strip(got.title[1].v \o <<".", " ">>
                             \o Replace(got.category[1].v, "_", " ") \o <<".", " ">>
                             \o got.severity[1].v
                             \o <<" ", "s", "e", "v", "e", "r", "i", "t", "y", ".", " ">>
                             \o got.description[1].v \o <<" ">>
                             \o got.suggestedFix[1].v)]

NoTextCall == [status |-> "none", report |-> JDict(<<>>), text |-> <<>>]

BuildReportTextCall ==
    LET r == build_report_text(rtext.report)
    IN  /\ rtext' = [rtext EXCEPT !.status = IF r.raised THEN "raised" ELSE "ok",
                                  !.text = r.text]
        /\ UNCHANGED <<apiKey, shared, build, bret, search, sret, callersOfText>>

\* ---- embeddings.py: normalize_vectors, and the numbers of the vectors
\* an embedding is a row of two whole numbers whose L2 norm is a whole number;
\* a row divided by d is [num |-> the row, den |-> d]
Embedded == {<<0, 0>>, <<1, 0>>, <<0, 2>>, <<3, 4>>, <<0 - 3, 4>>}
MaxHeld == 3
EmbeddedBatches == UNION {[1..n -> Embedded] : n \in 1..(MaxHeld - 1)}
SumOfSquares(row) == row[1] * row[1] + row[2] * row[2]
\* np.linalg.norm of a row
Norm(row) == CHOOSE n \in 0..SumOfSquares(row) : n * n = SumOfSquares(row)

\* rows returned as they came, not divided by anything
NormalizeUndivided(vectors) ==
    [i \in 1..Len(vectors) |-> [num |-> vectors[i], den |-> 1]]

\* lines 58-62
normalize_vectors(vectors) ==
    LET norms == [i \in 1..Len(vectors) |->
                     IF Norm(vectors[i]) = 0 THEN 1 ELSE Norm(vectors[i])]
    IN  [i \in 1..Len(vectors) |-> [num |-> vectors[i], den |-> norms[i]]]

\* raw: the embeddings whose rows the index holds; held: the rows it holds;
\* query: the embedding of the last query and the row searched for
NoVectors == [raw |-> <<>>, held |-> <<>>, query |-> <<>>]

\* lines 84-89 and 92: a force rebuild, or a first build, starts a new index
IndexReset ==
    /\ nvec' = [nvec EXCEPT !.raw = <<>>, !.held = <<>>]
    /\ UNCHANGED <<apiKey, shared, build, bret, search, sret, callersOfVectors>>

\* lines 103-107: the rows of the embeddings returned are normalized and added
IndexAdd(embeddings) ==
    /\ Len(nvec.held) + Len(embeddings) <= MaxHeld
    /\ nvec' = [nvec EXCEPT !.raw = @ \o embeddings,
                            !.held = @ \o normalize_vectors(embeddings)]
    /\ UNCHANGED <<apiKey, shared, build, bret, search, sret, callersOfVectors>>

\* lines 139-144: the row the index is searched for
SearchVector(query_embedding) ==
    /\ nvec' = [nvec EXCEPT !.query =
                    <<[raw |-> query_embedding,
                       vec |-> normalize_vectors(<<query_embedding>>)[1]]>>]
    /\ UNCHANGED <<apiKey, shared, build, bret, search, sret, callersOfVectors>>

\* ---- main.py: lifespan, and the vector_search calls of the started application
\* the module is imported and lifespan has not run
NoApp == [pc |-> "starting", startup |-> "none"]

\* an application whose startup lets the exception of the build through
AfterStartupPropagates ==
    app' = CASE bret'.status = "ok" -> [pc |-> "serving", startup |-> "ok"]
             [] bret'.status = "raised" -> [pc |-> "failed", startup |-> "failed"]
             [] OTHER -> [pc |-> "lifespan", startup |-> "none"]

\* lines 87-94: how a build_index step leaves lifespan; an exception is
\* printed and the application goes on to serve
AfterStartup ==
    app' = CASE bret'.status = "ok" -> [pc |-> "serving", startup |-> "ok"]
             [] bret'.status = "raised" -> [pc |-> "serving", startup |-> "failed"]
             [] OTHER -> [pc |-> "lifespan", startup |-> "none"]

\* lines 88-89: get_all_reports, then build_index(reports) up to its await or
\* its return
LifespanStarts(reports) ==
    /\ app.pc = "starting"
    /\ BuildCall("b1", reports, FALSE)
    /\ AfterStartup
    /\ UNCHANGED <<tool, tret, store, fret, run, graph, rtext, nvec>>

\* line 89: the await of build_index ends
LifespanBuildEnds ==
    /\ app.pc = "lifespan"
    /\ \/ BuildFinish("b1")
       \/ BuildMismatch("b1")
       \/ BuildEmbedRaises("b1")
    /\ AfterStartup
    /\ UNCHANGED <<tool, tret, store, fret, run, graph, rtext, nvec>>

\* a step of a vector_search call of the application that serves
Serving(step) ==
    /\ app.pc = "serving"
    /\ step
    /\ UNCHANGED <<store, fret, run, graph, rtext, nvec, app>>

\* ---- the module as loaded
Init ==
    /\ apiKey \in BOOLEAN
    /\ index = [built |-> FALSE, vecs |-> <<>>]
    /\ id_map = <<>>
    /\ text_cache = EmptyCache
    /\ build = [p \in Builders |-> IdleBuild]
    /\ bret = NoResult
    /\ search = IdleSearch
    /\ sret = NoSearchResult
    /\ tool = IdleTool
    /\ tret = NoToolResult
    /\ store = EmptyStore
    /\ fret = NoFilterResult
    /\ run = IdleRun
    /\ graph = IdleGraph
    /\ rtext = NoTextCall
    /\ nvec = NoVectors
    /\ app = NoApp

\* one task synchronizes: its calls follow one another
Next ==
    \/ /\ \E reports \in ReportLists, force \in BOOLEAN : BuildCall("b1", reports, force)
       /\ UNCHANGED callers
    \/ BuildEmbedRaises("b1") /\ UNCHANGED callers
    \/ BuildFinish("b1") /\ UNCHANGED callers
    \/ BuildMismatch("b1") /\ UNCHANGED callers

Spec == Init /\ [][Next]_vars

\* two tasks synchronize concurrently
NextSync ==
    \/ /\ \E p \in Builders, reports \in ReportLists, force \in BOOLEAN :
               BuildCall(p, reports, force)
       /\ UNCHANGED callers
    \/ (\E p \in Builders : BuildEmbedRaises(p)) /\ UNCHANGED callers
    \/ (\E p \in Builders : BuildFinish(p)) /\ UNCHANGED callers
    \/ (\E p \in Builders : BuildMismatch(p)) /\ UNCHANGED callers

SpecSync == Init /\ [][NextSync]_vars

\* one task synchronizes while another searches
NextSearch ==
    \/ /\ \E reports \in ReportLists, force \in BOOLEAN : BuildCall("b1", reports, force)
       /\ UNCHANGED callers
    \/ BuildEmbedRaises("b1") /\ UNCHANGED callers
    \/ BuildFinish("b1") /\ UNCHANGED callers
    \/ BuildMismatch("b1") /\ UNCHANGED callers
    \/ /\ \E q \in Queries, top_k \in TopKs, targ \in ThresholdArgs :
               SearchCall(q, top_k, targ)
       /\ UNCHANGED callers
    \/ SearchEmbedRaises /\ UNCHANGED callers
    \/ SearchResume /\ UNCHANGED callers

SpecSearch == Init /\ [][NextSearch]_vars

\* one task calls vector_search again and again
NextTool ==
    \/ /\ \E reports \in ReportLists, q \in Queries, top_k \in TopKs :
               VectorSearchCall(reports, q, top_k)
       /\ UNCHANGED <<store, fret, run, graph, rtext, nvec, app>>
    \/ VectorSearchBuildEnds /\ UNCHANGED <<store, fret, run, graph, rtext, nvec, app>>
    \/ VectorSearchQuery /\ UNCHANGED <<store, fret, run, graph, rtext, nvec, app>>
    \/ VectorSearchQueryEnds /\ UNCHANGED <<store, fret, run, graph, rtext, nvec, app>>

SpecTool == Init /\ [][NextTool]_vars

\* the application starts, then serves vector_search calls one after another
NextStartup ==
    \/ \E reports \in ReportLists : LifespanStarts(reports)
    \/ LifespanBuildEnds
    \/ \E reports \in ReportLists, q \in Queries, top_k \in TopKs :
          Serving(VectorSearchCall(reports, q, top_k))
    \/ Serving(VectorSearchBuildEnds)
    \/ Serving(VectorSearchQuery)
    \/ Serving(VectorSearchQueryEnds)

SpecStartup == Init /\ [][NextStartup]_vars

\* the filter tools are called on a collection that holds some documents
InitFilters ==
    /\ apiKey = TRUE
    /\ index = [built |-> FALSE, vecs |-> <<>>]
    /\ id_map = <<>>
    /\ text_cache = EmptyCache
    /\ build = [p \in Builders |-> IdleBuild]
    /\ bret = NoResult
    /\ search = IdleSearch
    /\ sret = NoSearchResult
    /\ tool = IdleTool
    /\ tret = NoToolResult
    /\ store \in Stores
    /\ fret = NoFilterResult
    /\ run = IdleRun
    /\ graph = IdleGraph
    /\ rtext = NoTextCall
    /\ nvec = NoVectors
    /\ app = NoApp

NextFilters ==
    \E name \in FilterTools, input \in FilterInputs : FilterCall(name, input)

SpecFilters == InitFilters /\ [][NextFilters]_vars

\* filter_by_location is called on a collection that holds some documents
InitLocation ==
    /\ apiKey = TRUE
    /\ index = [built |-> FALSE, vecs |-> <<>>]
    /\ id_map = <<>>
    /\ text_cache = EmptyCache
    /\ build = [p \in Builders |-> IdleBuild]
    /\ bret = NoResult
    /\ search = IdleSearch
    /\ sret = NoSearchResult
    /\ tool = IdleTool
    /\ tret = NoToolResult
    /\ store \in LocatedStores
    /\ fret = NoFilterResult
    /\ run = IdleRun
    /\ graph = IdleGraph
    /\ rtext = NoTextCall
    /\ nvec = NoVectors
    /\ app = NoApp

NextLocation ==
    \E lat \in Centers, radius_km \in Radii : LocationCall(lat, radius_km)

SpecLocation == InitLocation /\ [][NextLocation]_vars

\* build_report_text is called, once or again, on one report
InitText ==
    /\ apiKey = TRUE
    /\ index = [built |-> FALSE, vecs |-> <<>>]
    /\ id_map = <<>>
    /\ text_cache = EmptyCache
    /\ build = [p \in Builders |-> IdleBuild]
    /\ bret = NoResult
    /\ search = IdleSearch
    /\ sret = NoSearchResult
    /\ tool = IdleTool
    /\ tret = NoToolResult
    /\ store = EmptyStore
    /\ fret = NoFilterResult
    /\ run = IdleRun
    /\ graph = IdleGraph
    /\ rtext \in [status : {"none"}, report : TextReports, text : {<<>>}]
    /\ nvec = NoVectors
    /\ app = NoApp

NextText == BuildReportTextCall

SpecText == InitText /\ [][NextText]_vars

\* the numbers of the rows: builds add rows, queries are searched for
NextVectors ==
    \/ IndexReset
    \/ \E embeddings \in EmbeddedBatches : IndexAdd(embeddings)
    \/ \E query_embedding \in Embedded : SearchVector(query_embedding)

SpecVectors == Init /\ [][NextVectors]_vars

\* one run of a search pipeline, from the query to the answer
InitPipeline ==
    /\ apiKey = TRUE
    /\ index = [built |-> FALSE, vecs |-> <<>>]
    /\ id_map = <<>>
    /\ text_cache = EmptyCache
    /\ build = [p \in Builders |-> IdleBuild]
    /\ bret = NoResult
    /\ search = IdleSearch
    /\ sret = NoSearchResult
    /\ tool = IdleTool
    /\ tret = NoToolResult
    /\ store = EmptyStore
    /\ fret = NoFilterResult
    /\ run = IdleRun
    /\ graph = IdleGraph
    /\ rtext = NoTextCall
    /\ nvec = NoVectors
    /\ app = NoApp

NextPipeline ==
    \/ \E response \in PlannerResponses : SearchAgentPlans(RawQuery, response)
    \/ \E outcome \in RetrievalOutcomes : SearchAgentRetrieves(outcome)
    \/ \E docs \in PipelineDocs : SearchAgentFilters(docs)
    \/ SearchAgentSynthesizes
    \/ \E response \in PlannerResponses : AnalystPlans(RawQuery, response)
    \/ \E outcome \in RetrievalOutcomes : SpecialistRetrieves(outcome)
    \/ \E response \in ReviewerResponses : SpecialistRefines(response)
    \/ \E docs \in PipelineDocs : SpecialistFilters(docs)
    \/ SupervisorSynthesizes

SpecPipeline == InitPipeline /\ [][NextPipeline]_vars

\* one run of the agent graph
NextGraph ==
    \/ RunSearch
    \/ \E calls \in ToolCallLists : CallModel(calls)
    \/ \E outputs \in UNION {[1..n -> UNION {ToolOutputs(name) : name \in GraphTools}] :
                               n \in 1..MaxCalls} : ToolsRun(outputs)
    \/ ProcessToolResults
    \/ RunSearchReturns

SpecGraph == InitPipeline /\ [][NextGraph]_vars

\* the event loop runs the nodes that call no collaborator as soon as they are
\* due; call_model and the tools end when their collaborator answers, and
\* nothing in run_search or in the search endpoint of main.py bounds that wait
SpecGraphFair ==
    /\ InitPipeline
    /\ [][NextGraph]_vars
    /\ WF_vars(ProcessToolResults)
    /\ WF_vars(RunSearchReturns)

\* ---- vocabulary of the properties
AllCachedIn(cache, reports) ==
    \A i \in 1..Len(reports) : cache[reports[i].id] = reports[i].text
CachedIds(cache) == {i \in Ids : cache[i] # NoText}
\* the step is task p's await of aembed_documents ending, and build_index returns
FinishesOk(p) ==
    build[p].pc = "embedding" /\ build'[p].pc = "idle" /\ bret'.status = "ok"
\* the reports whose cached text differs from their text
ChangedIn(cache, reports) ==
    {i \in 1..Len(reports) : cache[reports[i].id] # reports[i].text}
\* the hits at or above the threshold, in the order of the hits, with their ids
RECURSIVE KeptInOrder(_, _, _)
KeptInOrder(hits, thr, ids) ==
    IF hits = <<>> THEN <<>>
    ELSE (IF Head(hits).score >= thr
          THEN <<[id |-> ids[Head(hits).pos], score |-> Head(hits).score]>>
          ELSE <<>>) \o KeptInOrder(Tail(hits), thr, ids)

\* C1: a build_index(R) that succeeds leaves every report of R cached with its
\* text and the index built; and called from such a state, with R not empty and
\* force_rebuild false, build_index(R) returns the current size at once: it makes
\* no embedding call and leaves index, id list and fingerprint cache unchanged.
C1_SynchronizeIdempotent ==
    [][\A p \in Builders :
        /\ FinishesOk(p)
              => (AllCachedIn(text_cache', build[p].reports) /\ index'.built)
        /\ build[p].pc = "idle" =>
              \A R \in ReportLists \ {<<>>} :
                 /\ (bret'.status = "ok" /\ BuildCall(p, R, FALSE))
                       => (AllCachedIn(text_cache', R) /\ index'.built)
                 /\ (AllCachedIn(text_cache, R) /\ index.built /\ BuildCall(p, R, FALSE))
                       => /\ bret' = Returned(Len(id_map), 0)
                          /\ build'[p].pc = "idle"
                          /\ UNCHANGED shared]_vars

\* C1 witness: a call on an index of two reports returned without an embedding call
C1_Witness ==
    /\ bret.status = "ok" /\ bret.calls = 0 /\ bret.count = 2
    /\ Len(id_map) = 2 /\ CachedIds(text_cache) = Ids

\* C2: when every report of R but one is cached with its current text and that one
\* is cached with another text, build_index(R) without force_rebuild submits the
\* batch holding exactly that report and changes nothing before the await; and
\* the end of a call changes the cache entry of no identifier outside its batch,
\* and on success enters the batch's texts.
C2_DirtyTracking ==
    [][\A p \in Builders :
        /\ (build[p].pc = "idle" /\ index.built) =>
              \A R \in ReportLists :
                 (/\ Cardinality(ChangedIn(text_cache, R)) = 1
                  /\ \A i \in 1..Len(R) : text_cache[R[i].id] # NoText
                  /\ BuildCall(p, R, FALSE))
                 => /\ build'[p].pc = "embedding"
                    /\ build'[p].batch = <<R[CHOOSE i \in ChangedIn(text_cache, R) : TRUE]>>
                    /\ UNCHANGED shared
        /\ (build[p].pc = "embedding" /\ build'[p].pc = "idle")
              => /\ \A i \in Ids \ Range(IdsOf(build[p].batch)) :
                        text_cache'[i] = text_cache[i]
                 /\ bret'.status = "ok"
                        => AllCachedIn(text_cache', build[p].batch)]_vars

\* C2 witness: one of two indexed reports changed its text, it alone was embedded,
\* and the call has ended with the other report's fingerprint as it was
C2_Witness ==
    /\ bret.status = "ok" /\ bret.calls = 1 /\ bret.count = 3
    /\ id_map[1] # id_map[2] /\ id_map[3] = id_map[1]
    /\ index.vecs[3] # index.vecs[1]
    /\ text_cache[id_map[1]] = index.vecs[3]
    /\ text_cache[id_map[2]] = index.vecs[2]

\* C3: when the embedding collaborator raises, the failed build_index call has
\* changed nothing of the index contents, the id list and the fingerprint cache.
C3_AtomicOnEmbedFailure ==
    [][\A p \in Builders : BuildEmbedRaises(p) => ~build[p].wrote]_vars

\* C4: when the embedding collaborator returns another number of vectors than
\* texts, build_index raises and leaves index, id list and cache unchanged.
C4_AtomicOnMismatch ==
    [][\A p \in Builders :
        BuildMismatch(p) => (bret'.status = "raised" /\ UNCHANGED shared)]_vars

\* C5: every report identifier occurs at most once in the id list.
C5_NoIdentifierTwice == NoDuplicates(id_map)

\* C6: when a build_index call resumes after a concurrent call has indexed the
\* same reports (each is cached with its text), the two calls have acted one
\* after the other: no identifier is in the id list twice and none of the
\* reports is missing from it.
C6_SynchronizeSerialized ==
    [][\A p \in Builders :
        (/\ FinishesOk(p)
         /\ ~build[p].force
         /\ AllCachedIn(text_cache, build[p].reports)
         /\ NoDuplicates(id_map))
        => /\ NoDuplicates(id_map')
           /\ Range(IdsOf(build[p].reports)) \subseteq Range(id_map')]_vars

\* C7: after a build_index(records, force_rebuild=True) that succeeds, the id
\* list is the identifiers of records in input order and the cache holds exactly
\* those identifiers, whatever records is.
C7_ForceRebuildUnconditional ==
    [][\A p \in Builders :
        /\ (build[p].pc = "idle" /\ bret'.status = "ok") =>
              \A R \in ReportLists :
                 BuildCall(p, R, TRUE)
                     => (id_map' = IdsOf(R) /\ CachedIds(text_cache') = Range(IdsOf(R)))
        /\ (FinishesOk(p) /\ build[p].force)
              => /\ id_map' = IdsOf(build[p].reports)
                 /\ CachedIds(text_cache') = Range(IdsOf(build[p].reports))]_vars

\* C8: a search_similar call with top_k >= 1 that resumes, after its await, on
\* an index whose vectors and ids are parallel, does not raise, asks the index
\* for at least one neighbour and at most as many as it holds, and gets only
\* positions that the id list has.
C8_SearchConsistentSnapshot ==
    [][(/\ search.pc = "embedding"
        /\ search.top_k >= 1
        /\ Len(index.vecs) = Len(id_map)
        /\ SearchResume)
       => /\ sret'.status = "ok"
          /\ sret'.k >= 1
          /\ sret'.k <= Len(index.vecs)
          /\ \A i \in 1..Len(sret'.hits) : sret'.hits[i].pos \in 1..Len(id_map)]_vars

C10_RankingOrder ==
    sret.status = "ok" =>
        /\ \A i, j \in 1..Len(sret.hits) :
              i < j => sret.hits[i].score >= sret.hits[j].score
        /\ sret.results =
              KeptInOrder(sret.hits,
                          IF sret.targ = <<>> THEN DefaultThreshold ELSE sret.targ[1],
                          id_map)
        /\ \A i, j \in 1..Len(sret.results) :
              i < j => sret.results[i].score >= sret.results[j].score

\* C10 witness: two results, the better one first although it was indexed last
C10_Witness ==
    /\ sret.status = "ok" /\ Len(sret.results) = 2
    /\ sret.results[1].score > sret.results[2].score
    /\ sret.hits[1].pos > sret.hits[2].pos

\* C11: search_similar called while the index is absent or holds no vector
\* returns the empty list at once, without raising and without a call of the
\* embedding collaborator, whatever its arguments; and the vector_search that
\* made the call returns matching_ids = [] and match_count = 0.
C11_EmptyIndexQuery ==
    [][(search.pc = "idle" /\ (~index.built \/ Len(index.vecs) = 0)) =>
          \A q \in Queries, top_k \in TopKs, targ \in ThresholdArgs :
             SearchCall(q, top_k, targ) =>
                /\ sret'.status = "ok"
                /\ sret'.results = <<>>
                /\ sret'.calls = 0
                /\ search'.pc = "idle"
                /\ tool.pc = "built" =>
                      /\ tret'.status = "ok"
                      /\ tret'.calls = 0
                      /\ tret'.out.matching_ids = <<>>
                      /\ tret'.out.match_count = 0]_vars

\* C11 witness: vector_search has returned from an index that is there and
\* holds no vector
C11_Witness ==
    /\ tret.status = "ok" /\ tret.onEmpty /\ tret.calls = 0
    /\ index.built /\ Len(index.vecs) = 0
    /\ tret.out.match_count = 0

\* the characters of s, each upper-case letter as its lower-case letter and,
\* when joined, each space and hyphen as an underscore
RECURSIVE Folded(_, _)
Folded(s, joined) ==
    IF s = <<>> THEN <<>>
    ELSE LET c == Head(s)
             d == IF joined /\ c \in {" ", "-"} THEN "_"
                  ELSE IF \E n \in 1..Len(Uppers) : Uppers[n] = c
                  THEN Lowers[CHOOSE n \in 1..Len(Uppers) : Uppers[n] = c]
                  ELSE c
         IN  <<d>> \o Folded(Tail(s), joined)
\* s without the white space it starts and ends with
RECURSIVE Trimmed(_)
Trimmed(s) ==
    IF s = <<>> THEN <<>>
    ELSE IF Head(s) \in Whitespace THEN Trimmed(Tail(s))
    ELSE IF s[Len(s)] \in Whitespace THEN Trimmed(SubSeq(s, 1, Len(s) - 1))
    ELSE s
\* the value a filter tool is to look up for an input, and the values it accepts
LookedUp(name, input) ==
    CASE name = "filter_by_category" -> Folded(input, TRUE)
      [] name = "filter_by_severity" -> Folded(Trimmed(input), FALSE)
      [] name = "filter_by_status" -> Folded(Trimmed(input), TRUE)
Accepted(name) ==
    CASE name = "filter_by_category" ->
            {broken_sidewalk, missing_ramp, blocked_path, steep_grade, poor_lighting,
             narrow_passage, uneven_surface, other}
      [] name = "filter_by_severity" -> {low, medium, high}
      [] name = "filter_by_status" -> {draft, open, acknowledged, in_progress, resolved}
\* the positions of the stored documents whose category is c
OfCategory(c) == {i \in 1..Len(store.reports) : store.reports[i].category = c}

\* C19 as stated: filter_by_category looks up its input case-folded, with each
\* space and hyphen as an underscore ("Missing Ramp" as missing_ramp); when
\* that value is a category, the ids returned are exactly the ids of the stored
\* documents of that category.
C19_CategoryFilterAllMatching ==
    (fret.tool = "filter_by_category" /\ fret.status = "ok") =>
        /\ fret.normalized = Folded(fret.input, TRUE)
        /\ fret.input = MissingRampTitle => fret.normalized = missing_ramp
        /\ fret.normalized \in Accepted("filter_by_category") =>
              /\ fret.queried
              /\ NoDuplicates(fret.out.matching_ids)
              /\ Range(fret.out.matching_ids) =
                    {store.reports[i].id : i \in OfCategory(fret.normalized)}

\* C19 amended: the same normalization; when the normalized value is a
\* category, the ids returned are those of the stored documents of that
\* category that come first in descending createdAt order, in that order, up
\* to the limit of filter_reports: all of them when they are no more than the
\* limit.
C19_CategoryFilterNormalization ==
    (fret.tool = "filter_by_category" /\ fret.status = "ok") =>
        /\ fret.normalized = Folded(fret.input, TRUE)
        /\ fret.input = MissingRampTitle => fret.normalized = missing_ramp
        /\ fret.normalized \in Accepted("filter_by_category") =>
              LET ids == fret.out.matching_ids
                  of == OfCategory(fret.normalized)
                  \* the position in the collection of the n-th id returned
                  at(n) == CHOOSE i \in 1..Len(store.reports) :
                              store.reports[i].id = ids[n]
              IN  /\ fret.queried
                  /\ Len(ids) = Min(Cardinality(of), FilterLimit)
                  /\ fret.out.match_count = Len(ids)
                  /\ \A n \in 1..Len(ids) :
                        /\ at(n) \in of
                        /\ Cardinality({i \in of : i < at(n)}) = n - 1

\* C19 witness: "Missing Ramp" was looked up as missing_ramp in a collection
\* that holds a document of that category and one of another, and the first
\* alone was returned
C19_Witness ==
    /\ fret.status = "ok" /\ fret.tool = "filter_by_category"
    /\ fret.input = MissingRampTitle /\ fret.normalized = missing_ramp
    /\ Len(store.reports) = 2
    /\ store.reports[1].category = other
    /\ fret.out.matching_ids = <<store.reports[2].id>>

\* C20: a filter tool called with a string whose normalized form is none of
\* the values it accepts returns, without raising and without a query of the
\* collection, a dictionary with an error entry and an empty matching_ids.
C20_InvalidFilterInput ==
    (fret.status # "none" /\ LookedUp(fret.tool, fret.input) \notin Accepted(fret.tool)) =>
        /\ fret.status = "ok"
        /\ ~fret.queried
        /\ "error" \in DOMAIN fret.out
        /\ fret.out.matching_ids = <<>>

\* C20 witness: filter_by_severity was given "urgent" while the collection did
\* not answer, and returned its error dictionary
C20_Witness ==
    /\ fret.status = "ok" /\ fret.tool = "filter_by_severity"
    /\ fret.input = Urgent /\ ~store.up
    /\ "error" \in DOMAIN fret.out /\ fret.out.matching_ids = <<>>

\* the planner failed: it raised, or wrote nothing, or wrote what is not JSON
\* once the marks of a code block are removed
Unparsable(response) ==
    response.raised \/ response.content = <<>> \/ ~Loads(Unfenced(response.content)).ok
\* a plan whose semantic query is the query and that names no filter
RawQueryNoFilters(plan, query) ==
    /\ IsDict(plan)
    /\ Get(plan, "semantic_query", JNull) = JStr(query)
    /\ ~Truthy(Get(plan, "filters", JNull))
\* the plan a run works with
PlanOf(r) == IF r.variant = "multi_agent" THEN Loads(r.search_plan).value ELSE r.plan

\* C12: when the planner raises, returns empty content or returns text that is
\* not JSON, the plan of the run has the raw query as semantic query and no
\* filters; the run then searches with the raw query, applies no filter, does
\* not raise in any stage that reads the plan, and ends with the ids the stage
\* before filter intersection handed on
C12_PlannerFallback ==
    [][/\ \A response \in PlannerResponses :
             (run.status = "none" /\ Unparsable(response)
              /\ (SearchAgentPlans(RawQuery, response) \/ AnalystPlans(RawQuery, response)))
             => (run'.fallback /\ RawQueryNoFilters(PlanOf(run'), RawQuery))
       /\ (run.status = "running" /\ RawQueryNoFilters(PlanOf(run), run.query))
             => /\ RawQueryNoFilters(PlanOf(run'), run'.query)
                /\ run'.applied = <<>>
                /\ run'.status = "raised" => run'.at = "vector search"
                /\ (run.pc = "CandidateRetrieval" /\ run'.status = "running")
                      => run'.searched = run.query
                /\ run.pc = "FilterIntersection" => run'.matching = run.refined
                /\ run'.status = "done" => Range(run'.matching) = Range(run.matching)]_vars
C12_Witness ==
    /\ run.status = "done" /\ run.variant = "multi_agent" /\ run.fallback
    /\ run.matching # <<>> /\ run.searched = RawQuery

\* C13: whatever the planner answered, the stages after plan extraction do not
\* raise on the plan: a run that raised did so in vector search, never where
\* the plan or its filters are read
C13_NeverAbortsOnPlannerOutput ==
    run.status = "raised" => run.at \notin {"search_plan.get", "filters.get"}

\* C14: when the reviewer raises or answers what is not JSON, the list handed
\* to filter intersection is the whole list vector search returned, in its
\* order, and not only the slice that was reviewed
C14_RefinementAdvisory ==
    [][\A response \in ReviewerResponses :
          (run.pc = "RelevanceRefinement"
           /\ (response.raised \/ ~Loads(Unfenced(response.content)).ok)
           /\ SpecialistRefines(response))
          => /\ run'.pc = "FilterIntersection"
             /\ run'.refined = run.candidates
             /\ run'.matching = run.candidates
             /\ run'.candidates = run.candidates]_vars
C14_Witness ==
    /\ run.pc = "FilterIntersection" /\ run.advisory
    /\ Len(run.candidates) > Len(run.reviewed) /\ Len(run.reviewed) = ReviewedTop
    /\ run.refined = run.candidates

\* the elements of ranked that every one of the match lists holds, in the
\* order of ranked
InEvery(ranked, matches) ==
    SelectSeq(ranked, LAMBDA id : \A k \in 1..Len(matches) : id \in Range(matches[k]))

\* C15: the filter-intersection step yields exactly the candidates that lie in
\* the match set of every filter it applied, in the candidates' relative order
C15_IntersectionCorrectness ==
    [][(run.pc = "FilterIntersection" /\ run'.pc = "Synthesis")
          => /\ run'.matching = InEvery(run.refined, run'.applied)
             /\ \A i, j \in 1..Len(run'.matching) :
                   i < j => \E a, b \in 1..Len(run.refined) :
                               a < b /\ run.refined[a] = run'.matching[i]
                                     /\ run.refined[b] = run'.matching[j]
             /\ run'.refined = run.refined]_vars
C15_Witness ==
    /\ run.pc = "Synthesis" /\ run.variant = "search_agent"
    /\ Len(run.applied) = 2 /\ Len(run.refined) = 3 /\ Len(run.matching) = 2
    /\ SelectSeq(run.applied[1], LAMBDA id : id \in Range(run.matching)) # run.matching

\* the stages in the order of the design
StageRank(stage) ==
    CASE stage = "PlanExtraction" -> 1
      [] stage = "CandidateRetrieval" -> 2
      [] stage = "RelevanceRefinement" -> 3
      [] stage = "FilterIntersection" -> 4
      [] stage = "Synthesis" -> 5
      [] stage = "Done" -> 6

\* C18: a run enters the stages in the order of the design, none of them twice,
\* and whatever the collaborators return it ends in Done: it does not end by
\* raising on what a collaborator returned
C18_LinearTerminating ==
    /\ \A i, j \in 1..Len(run.trace) :
          i < j => StageRank(run.trace[i]) < StageRank(run.trace[j])
    /\ run.status = "done" => run.trace[Len(run.trace)] = "Done"
    /\ run.status = "raised" => run.at = "vector search"

\* C16: when a tool that ran answered with an empty matching_ids, the ids the
\* run of the agent graph returns are empty, whatever the other tools answered
\* and in whatever order
C16_EmptyResultPropagates ==
    (graph.node = "returned" /\ graph.empties > 0) => graph.matchingIds = <<>>

\* C17: after every agent step the accumulated matching_ids are the ids common
\* to the answers of all the tool invocations made so far that answered with a
\* matching_ids key; answers without the key change nothing
C17_IntersectionOverEveryTool ==
    graph.node \in {"agent", "END", "returned"}
       => Range(graph.matching_ids) = (IF graph.invoked = 0 THEN {} ELSE graph.common)

\* C28: whenever build_index returns normally, whatever the record list and the
\* state before, the count it returns is get_index_size() and the length of the
\* id list right after the call
C28_ReturnsIndexSize ==
    bret.status = "ok"
       => /\ bret.count = (IF index.built THEN Len(index.vecs) ELSE 0)
          /\ bret.count = Len(id_map)

\* C30: when search_similar reaches the index it asks for k = min(top_k, size)
\* neighbours, size being the number of vectors the index holds at that moment,
\* and the list it returns holds at most k pairs; a call that returns without
\* reaching the index returns no pair
C30_ResultCountBound ==
    [][/\ (search.pc = "embedding" /\ SearchResume)
          => /\ sret'.k = Min(search.top_k, Len(index.vecs))
             /\ sret'.status = "ok"
                   => /\ Len(sret'.hits) = sret'.k
                      /\ Len(sret'.results) <= sret'.k
                      /\ Len(sret'.results) <= search.top_k
                      /\ Len(sret'.results) <= Len(index.vecs)
       /\ (search.pc = "idle" /\ sret'.status = "ok" /\ sret'.calls = 0)
          => sret'.results = <<>>]_vars
C30_Witness ==
    /\ sret.status = "ok" /\ sret.calls = 1
    /\ sret.top_k > Len(index.vecs) /\ sret.k = Len(index.vecs)
    /\ Len(sret.results) = sret.k /\ sret.k >= 1

\* C24: in each pipeline variant, once candidate retrieval has run, the string
\* that was passed to similarity search is the semantic_query of the plan that
\* plan extraction produced
C24_RetrievalUsesSemanticQuery ==
    (/\ run.status # "raised"
     /\ \E i \in 1..Len(run.trace) : run.trace[i] = "CandidateRetrieval"
     /\ IsDict(PlanOf(run))
     /\ Get(PlanOf(run), "semantic_query", JNull).t = "str")
       => run.searched = Get(PlanOf(run), "semantic_query", JNull).v

\* C25: when a filter value of the plan is outside the evaluator's set, the
\* result of the run carries a marker of the invalid input
C25_InvalidFilterReported ==
    (run.status = "done" /\ run.invalid # <<>>)
       => \E key \in DOMAIN run.result : key \in {"error", "invalid", "errors"}

\* C26: in the multi-agent pipeline each node that runs appends its name to the
\* trace it received: when the run is done the trace of the state lists the
\* three nodes in the order they ran
C26_TraceAccumulates ==
    (run.variant = "multi_agent" /\ run.status = "done")
       => run.agents = <<"intent_analyst", "search_specialist", "supervisor">>

\* the filters of the plan of a run, and those that carry a value
FiltersOf(r) == Get(PlanOf(r), "filters", JDict(<<>>))
FilterKey(name) ==
    CASE name = "filter_by_category" -> "category"
      [] name = "filter_by_severity" -> "severity"
      [] name = "filter_by_status" -> "status"
Carried(r) == {name \in FilterTools : Get(FiltersOf(r), FilterKey(name), JNull) # JNull}

\* C29: in each variant, when filter intersection has run on a plan whose
\* filters are a dictionary or null, the list it leaves lies in the match set of
\* each of category, severity and status the plan carries a value for, one
\* evaluator was invoked for each of them and none else; when the plan carries
\* none the list is unchanged and no evaluator was invoked
C29_EveryCarriedFilterApplied ==
    (/\ run.pc = "Synthesis"
     /\ \E i \in 1..Len(run.trace) : run.trace[i] = "FilterIntersection"
     /\ FiltersOf(run).t \in {"dict", "null"})
       => LET carried == IF FiltersOf(run).t = "dict" THEN Carried(run) ELSE {}
          IN  /\ Len(run.applied) = Cardinality(carried)
              /\ \A name \in carried :
                    Range(run.matching) \subseteq
                       Range(FilterTool(name, run.docs,
                                        Get(FiltersOf(run), FilterKey(name), JNull).v)
                                .out.matching_ids)
              /\ carried = {} => (run.matching = run.refined /\ run.applied = <<>>)

\* C27: a search workflow that has started ends, by returning or by a timeout
\* error, even when a call of a collaborator never returns
C27_EndsWithinTimeout ==
    [](graph.node # "idle" => <>(graph.node \in {"returned", "timeout"}))

\* the documents that have a pair of coordinates, with their distance to lat
WithPair(docs) ==
    {i \in 1..Len(docs) :
        /\ docs[i].location.kind = "dict"
        /\ docs[i].location.coordinates.kind = "list"
        /\ Len(docs[i].location.coordinates.items) = 2}

\* C21: for any centre, radius and collection, filter_by_location returns, without
\* raising, exactly the documents that have a pair of coordinates no farther
\* from the centre than the radius, nearest first, each with its distance;
\* documents without a location, with a null location, or with missing or
\* malformed coordinates are left out
C21_LocationFilter ==
    fret.tool = "filter_by_location"
       => /\ fret.status = "ok"
          /\ LET lat == fret.input[1]
                 radius_km == fret.input[2]
                 docs == store.reports
                 near == {i \in WithPair(docs) :
                            /\ docs[i].location.coordinates.items[2].type = "number"
                            /\ Haversine(lat, 0, docs[i].location.coordinates.items[2].v, 0)
                                  <= radius_km}
                 ids == fret.out.matching_ids
                 distances == fret.out.distances
             IN  /\ Range(ids) = {docs[i].id : i \in near}
                 /\ Len(ids) = Cardinality(near)
                 /\ Len(distances) = Len(ids)
                 /\ \A k \in 1..Len(ids) : distances[k].id = ids[k]
                 /\ \A j, k \in 1..Len(ids) :
                       j < k => distances[j].distance_km <= distances[k].distance_km

\* the segment of a field: its string in content, else its string in aiDraft,
\* else nothing; a sub-document or field that is absent or null gives nothing
Segment(report, f) ==
    LET from(key) ==
            IF IsDict(Get(report, key, JNull)) /\ Get(Get(report, key, JNull), f, JNull).t = "str"
            THEN Get(Get(report, key, JNull), f, JNull).v
            ELSE <<>>
    IN  IF from("content") # <<>> THEN from("content") ELSE from("aiDraft")

\* C22: build_report_text never raises on a report whose content, aiDraft and
\* fields are each present, absent or null: it returns the text in which each
\* field that is absent or null is an empty segment
C22_TextTotal ==
    rtext.status # "none"
       => /\ rtext.status = "ok"
          /\ rtext.text =
                Strip(Segment(rtext.report, "title") \o <<".", " ">>
                      \o Replace(Segment(rtext.report, "category"), "_", " ") \o <<".", " ">>
                      \o Segment(rtext.report, "severity")
                      \o <<" ", "s", "e", "v", "e", "r", "i", "t", "y", ".", " ">>
                      \o Segment(rtext.report, "description") \o <<" ">>
                      \o Segment(rtext.report, "suggestedFix"))

UnitNorm(v) == SumOfSquares(v.num) = v.den * v.den
ZeroRow(v) == v.num = <<0, 0>> /\ v.den = 1
\* the row is the embedding divided by its norm, or by 1 when the norm is 0
Normalized(raw, v) ==
    /\ v.num = raw
    /\ v.den > 0
    /\ IF raw = <<0, 0>> THEN ZeroRow(v) ELSE UnitNorm(v)

C34_PositionsParallel == Len(index.vecs) = Len(id_map)

\* the last position of identifier i in the id list
LastPosition(i) ==
    CHOOSE n \in 1..Len(id_map) : id_map[n] = i /\ \A m \in (n + 1)..Len(id_map) : id_map[m] # i

\* C35: in every state the identifiers with a fingerprint are those of the id
\* list, and the fingerprint of each is the text whose vector the index holds at
\* the identifier's last position
C35_CacheAgreesWithIndex ==
    /\ CachedIds(text_cache) = Range(id_map)
    /\ \A i \in Range(id_map) :
          /\ LastPosition(i) <= Len(index.vecs)
          /\ index.vecs[LastPosition(i)] = text_cache[i]

\* the index holds the reports of the list and nothing else: every identifier
\* of the id list is that of a report of the list, and every vector held for it
\* is the vector of the report's text
Reconciled(reports, ids, vecs) ==
    \A n \in 1..Len(ids) :
        \E k \in 1..Len(reports) :
            /\ reports[k].id = ids[n]
            /\ n <= Len(vecs) => vecs[n] = reports[k].text

\* C36: when build_index(reports) without force rebuild returns, every
\* identifier a search can return is that of a report of the list, and is held
\* only with the vector of that report's text
C36_ReconciledWithRecords ==
    [][/\ \A reports \in ReportLists :
             (BuildCall("b1", reports, FALSE) /\ bret'.status = "ok")
                => Reconciled(reports, id_map', index'.vecs)
       /\ (FinishesOk("b1") /\ ~build["b1"].force)
             => Reconciled(build["b1"].reports, id_map', index'.vecs)]_vars

\* every report of the list has a position in the id list; where the vectors
\* stand at the positions of their identifiers, the vector there is that of the
\* report's text
Indexed(reports, ids, vecs, parallel) ==
    \A k \in 1..Len(reports) :
        \E n \in 1..Len(ids) :
            /\ ids[n] = reports[k].id
            /\ parallel => (n <= Len(vecs) /\ vecs[n] = reports[k].text)
\* the embedding collaborator has so far returned one vector per text
Parallel == Len(index.vecs) = Len(id_map) /\ JunkVector \notin Range(index.vecs)

\* C33: a startup build that raises leaves the application serving; a serving
\* application searches only inside a vector_search call whose build_index has
\* returned; and when that build_index returns, after the collaborator gave one
\* vector per text, the index holds every report of the list it was given
C33_RebuildableOnDemand ==
    [][/\ app'.startup = "failed" => app'.pc = "serving"
       /\ (app.pc = "serving" /\ search' # search) => tool.pc \in {"built", "search_similar"}
       /\ (app.pc = "serving" /\ tool'.pc = "built")
             => /\ bret'.status = "ok"
                /\ \A reports \in ReportLists :
                      (tool.pc = "idle" /\ BuildCall("b1", reports, FALSE))
                         => Indexed(reports, id_map', index'.vecs, Parallel)
                /\ (tool.pc = "build_index" /\ BuildFinish("b1"))
                         => Indexed(build["b1"].reports, id_map', index'.vecs, Parallel)]_vars

\* C33 witness: startup failed, and a later vector_search has built an index of
\* two reports and found one of them
C33_Witness ==
    /\ app.startup = "failed"
    /\ tret.status = "ok"
    /\ tret.out.match_count >= 1
    /\ Len(id_map) = 2 /\ Len(index.vecs) = 2

\* C32: the node after the agent node is tools exactly when the model's message
\* asks for some tool and END exactly when it asks for none, whatever
\* matching_ids holds; after tools comes process, and after process the agent
C32_RoutingByLastMessage ==
    [][/\ graph.node = "agent"
             => /\ graph'.node = "tools" <=> graph'.calls # <<>>
                /\ graph'.node = "END" <=> graph'.calls = <<>>
       /\ graph.node = "tools" => graph'.node = "process"
       /\ graph.node = "process" => graph'.node = "agent"]_vars

\* C32 witness: the run is at the tools node for the second time, with ids
\* already matched
C32_Witness ==
    /\ graph.node = "tools"
    /\ graph.steps >= 1
    /\ graph.matching_ids # <<>>
    /\ graph.calls # <<>>

\* the step is the Synthesis stage of a run
Synthesizes == run.pc = "Synthesis" /\ run' # run
NoMatchForms == {"No reports found", "No reports matched"}

\* C31: the Synthesis stage returns normally, leaves the id list as it was,
\* gives the summary of the no-match form exactly when that list is empty, and
\* reports a matchCount that is the length of the list
C31_SynthesisPure ==
    [][Synthesizes
          => /\ run'.status = "done"
             /\ run'.matching = run.matching
             /\ run'.summary \in NoMatchForms <=> run'.matching = <<>>
             /\ "matchCount" \in DOMAIN run'.result
                   => run'.result.matchCount = Len(run'.matching)]_vars

\* ids is a list of ids of ranked, each at most once, in the order of ranked
Position(ranked, id) == CHOOSE n \in 1..Len(ranked) : ranked[n] = id /\ \A m \in 1..(n - 1) : ranked[m] # id
InRankedOrder(ids, ranked) ==
    /\ Range(ids) \subseteq Range(ranked)
    /\ NoDuplicates(ids)
    /\ \A i, j \in 1..Len(ids) : i < j => Position(ranked, ids[i]) < Position(ranked, ids[j])

\* C37: the id list a run returns holds only ids that similarity search
\* returned for the query, each at most once, in the order it ranked them,
\* whatever the collaborators answered
C37_NarrowingOnlyNarrows ==
    run.status = "done" => InRankedOrder(run.matching, run.candidates)

====
